---------------------------- MODULE Spec2Model ----------------------------
(***************************************************************************)
(* Model of the document-data presentation layer of the file-review        *)
(* frontend:                                                               *)
(*   - DataTable.tsx: the shape dispatch that picks a view for a parsed    *)
(*     payload (specification SpecDispatch);                               *)
(*   - StructuredTableView.tsx: the stateful table view with table         *)
(*     picker, search, column sort (specification Spec);                   *)
(*   - the row sort of StructuredTableView taken alone as a function of    *)
(*     its input column (specification SpecSort), and with columns of     *)
(*     mixed values under the sort of either engine (SpecSortMixed);       *)
(*   - the CSV exports of StructuredTableView and InvoiceTable             *)
(*     (specification SpecCsv);                                            *)
(*   - InvoiceTable.tsx: table selection and headers (SpecInvoice);        *)
(*   - the text extraction and formatting functions of ResultsDisplay.tsx  *)
(*     (specification SpecExtract);                                        *)
(*   - ResultsDisplay.tsx: file list, detail fetch and error state         *)
(*     (specification SpecResults; SpecResultsLive with requests that       *)
(*     settle);                                                            *)
(*   - App.tsx: processed files, uploads, refreshes, status messages and   *)
(*     their timers (specification SpecApp);                               *)
(*   - the PDF and CSV exports of DataTable, InvoiceTable and              *)
(*     StructuredTableView (specification SpecExport).                     *)
(* JavaScript strings are sequences of one-character strings; JSON values  *)
(* are records tagged by the field k.                                      *)
(***************************************************************************)
EXTENDS Integers, Sequences, FiniteSets, TLC

VARIABLES
    \* DataTable (props and state)
    dtData,          \* prop data: the parsed payload
    dtFileType,      \* prop fileType
    activeTab,       \* useState activeTab
    \* StructuredTableView (props and state)
    data,            \* prop data (structuredTableData)
    searchTerm,      \* useState searchTerm
    selectedTable,   \* useState selectedTable
    showOnlyValues,  \* useState showOnlyValues
    lastEvent,       \* the handler that ran last
    prevShown,       \* the selected table and the rows shown before it ran
    sortColumn,      \* useState sortColumn
    sortDirection,   \* useState sortDirection
    supplied,        \* history: the payload as the parent supplied it
    clickParity,     \* history: consecutive clicks on the sort column, mod 2
    lastClicked,     \* history: the column header clicked last (<<"-">> before any click)
    \* the row sort alone
    srtIn,           \* rows handed to the sort
    srtDir,          \* direction of the last sort applied ("none" before any)
    srtOut,          \* rows the sort returned
    srtEngine,       \* the sort algorithm of the JavaScript engine running the page
    srtAgain,        \* rows returned by sorting srtOut once more, once done
    \* CSV export
    csvRows,         \* the table StructuredTableView shows (currentTableData)
    csvText,         \* content of the last CSV download
    csvBy,           \* the component that produced it ("none" before any download)
    csvIndex,        \* the table number in the file name of InvoiceTable's download
    \* InvoiceTable (props and state)
    invData,         \* prop data: whether it has a tables field, and the tables
    invSelected,     \* useState selectedTable (0-based index)
    \* text extraction and formatting
    extText,         \* the extracted text of the file shown
    extOut,          \* what the function called last returned
    \* ResultsDisplay
    files,              \* the files prop
    selectedFile,       \* useState selectedFile
    loadingFileDetails, \* useState loadingFileDetails
    detailsError,       \* useState detailsError
    showStructuredView, \* useState showStructuredView
    pendingFetch,       \* the axios.get calls of fetchFileDetails that have not settled
    requestCount,       \* how many requests were sent
    rdEvent,            \* the handler or continuation that ran last
    rdBatching,         \* whether React batches the state updates made after an await
    rdFinally,          \* the continuation that has yet to run its finally block
    rdSupplied,         \* history: the files as the parent supplied them
    \* App
    processedFiles,     \* useState processedFiles (file ids, first to last)
    loading,            \* useState loading
    error,              \* useState error (0: null, k: the message of upload k)
    success,            \* useState success (0: null, k: the message of upload k)
    appTab,             \* useState activeTab of App
    errorTimeoutRef,    \* errorTimeoutRef.current (0: null, else a timer id)
    successTimeoutRef,  \* successTimeoutRef.current (0: null, else a timer id)
    timers,             \* the timers set and neither fired nor cleared
    uploadReq,          \* the axios.post of handleFileUpload
    refreshReqs,        \* the axios.get calls of loadExistingFiles not yet settled
    serverFiles,        \* the list the server holds
    uploadCount,        \* how many uploads were started
    refreshCount,       \* how many refreshes were requested
    appAdded,           \* history: the files successful uploads put in the list
    appEvent,           \* the handler or continuation that ran last
    \* the exports
    exSheets,           \* DataTable: data.sheets, each by its numbers of rows and columns
    exInvoice,          \* InvoiceTable: currentTable, by its numbers of rows and columns
    exCsvRows,          \* StructuredTableView: currentTableData.length
    autoTableAvailable, \* InvoiceTable: whether jspdf-autotable loaded
    exView,             \* the view state: selected table, sort direction, active tab
    exPc,               \* where exportSheetData stands, and on which sheet
    processedRows,      \* exportSheetData: processedRows
    exDoc,              \* the tables drawn in the PDF document being generated
    exEvent             \* the export that ran last and how it ended

dtVars == <<dtData, dtFileType, activeTab>>
stvVars == <<data, searchTerm, selectedTable, showOnlyValues, lastEvent, prevShown, sortColumn,
             sortDirection, supplied, clickParity, lastClicked>>
srtVars == <<srtIn, srtDir, srtOut>>
mixVars == <<srtEngine, srtAgain>>
csvVars == <<csvRows, csvText, csvBy, csvIndex>>
invVars == <<invData, invSelected>>
\* the components added to the three above
extVars == <<extText, extOut>>
rdVars ==
    <<files, selectedFile, loadingFileDetails, detailsError, showStructuredView,
      pendingFetch, requestCount, rdEvent, rdBatching, rdFinally, rdSupplied>>
appVars ==
    <<processedFiles, loading, error, success, appTab, errorTimeoutRef,
      successTimeoutRef, timers, uploadReq, refreshReqs, serverFiles, uploadCount,
      refreshCount, appAdded, appEvent>>
expVars ==
    <<exSheets, exInvoice, exCsvRows, autoTableAvailable, exView, exPc, processedRows,
      exDoc, exEvent>>
auxVars == <<mixVars, csvVars, invVars, extVars, rdVars, appVars, expVars>>
vars == <<dtVars, stvVars, srtVars, auxVars>>

-----------------------------------------------------------------------------
(* Bounds of the model.                                                    *)

\* most invoice-field keys present on the first element of an array payload
MaxKeys == 2
\* most tables in a payload handed to StructuredTableView
MaxTables == 2
\* longest search term typed into the table search box
MaxTermLen == 2
\* longest JSON text handed to StructuredTableView as a string
MaxTextLen == 3
\* most rows of a table handed to the sort alone
MaxSortRows == 5

SeqsUpTo(S, n) == UNION {[1..m -> S] : m \in 0..n}

-----------------------------------------------------------------------------
(* DataTable.tsx: payloads.  A payload is described by what the dispatch   *)
(* and the render functions read of it.                                    *)

InvoiceFields == {"Product", "Batch", "HSN", "Amount", "Rate", "Qty"}

\* value stored under a key of the first array element:
\*   "absent" (no such key), "falsy" (0 or ''), "truthy" (anything else)
FirstItems ==
    {f \in [InvoiceFields -> {"absent", "falsy", "truthy"}] :
        Cardinality({k \in InvoiceFields : f[k] # "absent"}) <= MaxKeys}

NoKeys == [k \in InvoiceFields |-> "absent"]

DtBlank ==
    [kind |-> "object", type |-> "none", tables |-> "none", dataField |-> "none",
     metadata |-> "none", content |-> "none", statistics |-> FALSE,
     sheets |-> FALSE, invoiceNo |-> FALSE, items |-> FALSE,
     grandTotal |-> FALSE, arrLen |-> 0, firstNull |-> FALSE, first |-> NoKeys]

\* plain objects: every combination of the fields the code reads
DtObjects ==
    {[DtBlank EXCEPT !.type = ty, !.tables = tb, !.dataField = df,
                     !.metadata = md, !.content = ct, !.statistics = st,
                     !.sheets = sh, !.invoiceNo = inv[1], !.items = inv[2],
                     !.grandTotal = inv[3]] :
        ty \in {"none", "ocr", "spreadsheet", "invoice"},
        tb \in {"none", "empty", "rows"},
        df \in {"none", "array", "other"},
        md \in {"none", "plain", "std"},
        ct \in {"none", "text", "table"},
        st \in BOOLEAN, sh \in BOOLEAN,
        inv \in BOOLEAN \X BOOLEAN \X BOOLEAN}

\* arrays: empty, first element null, or first element an object
DtArrays ==
    {[DtBlank EXCEPT !.kind = "array"]}
    \cup {[DtBlank EXCEPT !.kind = "array", !.arrLen = 1, !.firstNull = TRUE]}
    \cup {[DtBlank EXCEPT !.kind = "array", !.arrLen = 1, !.first = f] :
            f \in FirstItems}

\* null/undefined, and a non-zero number standing for the truthy primitives
DtPrimitives == {[DtBlank EXCEPT !.kind = "null"], [DtBlank EXCEPT !.kind = "number"]}

DtPayloads == DtObjects \cup DtArrays \cup DtPrimitives

FileTypes == {"image", "pdf", "excel"}

-----------------------------------------------------------------------------
(* DataTable.tsx: render.                                                  *)

\* firstItem && (firstItem.Product || firstItem.Batch || ... || firstItem.Qty)
hasInvoiceFields(d) ==
    /\ ~d.firstNull
    /\ \E k \in InvoiceFields : d.first[k] = "truthy"

\* renderOverview reads data.statistics.* and data.metadata.* unguarded
renderOverviewThrows(d) == ~d.statistics \/ d.metadata = "none"

renderOcrData(d, tab) ==
    IF d.type # "ocr" THEN "Blank"
    ELSE IF d.content = "none" THEN "Throw"
    ELSE IF tab = "overview" /\ renderOverviewThrows(d) THEN "Throw"
    ELSE "OcrText"

renderExcelData(d) ==
    IF d.type # "spreadsheet" THEN "Blank"
    ELSE IF ~d.sheets THEN "Throw"
    ELSE "Spreadsheet"

\* what the component returns for props (d, ft) and state tab
DataTableRender(d, ft, tab) ==
    IF d.kind = "null" THEN "NoData"
    ELSE IF ft = "excel" THEN renderExcelData(d)
    ELSE IF ft = "pdf" THEN "PdfText"
    ELSE IF d.type = "invoice" \/ d.tables # "none" THEN "TableList"
    ELSE IF d.dataField = "array" /\ d.metadata = "std" THEN "KeyedTableMap"
    ELSE IF d.kind = "array" /\ d.arrLen > 0 /\ hasInvoiceFields(d) THEN "RecordArray"
    ELSE renderOcrData(d, tab)

dtView == DataTableRender(dtData, dtFileType, activeTab)

\* the tab buttons the current view offers
OfferedTabs ==
    IF dtView = "OcrText"
    THEN {"overview", "lines", "words", "raw"}
         \cup (IF dtData.content = "table" THEN {"table"} ELSE {})
    ELSE IF dtView \in {"KeyedTableMap", "RecordArray"}
    THEN {"material-ui", "standard"}
    ELSE {}

DtInit ==
    /\ dtData \in DtPayloads
    /\ dtFileType \in FileTypes
    /\ activeTab = "material-ui"

\* onClick={() => setActiveTab(tab.id)}
SetActiveTab ==
    \E tab \in OfferedTabs :
        /\ activeTab' = tab
        /\ UNCHANGED <<dtData, dtFileType>>
        /\ UNCHANGED <<stvVars, srtVars, auxVars>>

DtIdle ==
    /\ dtData = [DtBlank EXCEPT !.kind = "null"]
    /\ dtFileType = "image"
    /\ activeTab = "material-ui"

-----------------------------------------------------------------------------
(* JavaScript strings and JSON values.                                     *)

Upper == <<"A", "B", "C", "D", "E", "F", "G", "H", "I", "J", "K", "L", "M",
           "N", "O", "P", "Q", "R", "S", "T", "U", "V", "W", "X", "Y", "Z">>
Lower == <<"a", "b", "c", "d", "e", "f", "g", "h", "i", "j", "k", "l", "m",
           "n", "o", "p", "q", "r", "s", "t", "u", "v", "w", "x", "y", "z">>
Digits == <<"0", "1", "2", "3", "4", "5", "6", "7", "8", "9">>

\* the characters of the model in code-unit order (String < String compares these)
CharOrder == <<" ", ",">> \o Digits \o Upper \o <<"[", "]">> \o Lower \o <<"{", "}">>

CharCode(c) == CHOOSE i \in 1..Len(CharOrder) : CharOrder[i] = c

IsDigit(c) == \E i \in 1..10 : Digits[i] = c
DigitVal(c) == (CHOOSE i \in 1..10 : Digits[i] = c) - 1

\* String.prototype.toLowerCase
toLowerCaseChar(c) ==
    IF \E i \in 1..26 : Upper[i] = c
    THEN Lower[CHOOSE i \in 1..26 : Upper[i] = c]
    ELSE c

RECURSIVE toLowerCase(_)
toLowerCase(s) ==
    IF s = <<>> THEN <<>>
    ELSE <<toLowerCaseChar(Head(s))>> \o toLowerCase(Tail(s))

\* String.prototype.includes
includes(s, t) ==
    \E i \in 0..(Len(s) - Len(t)) : SubSeq(s, i + 1, i + Len(t)) = t

\* Number -> String, for a non-negative integer
RECURSIVE NumToChars(_)
NumToChars(n) ==
    IF n < 10 THEN <<Digits[n + 1]>>
    ELSE NumToChars(n \div 10) \o <<Digits[(n % 10) + 1]>>

\* Array.prototype.indexOf, 1-based; 0 stands for -1
indexOf(seq, x) ==
    IF \E i \in 1..Len(seq) : seq[i] = x
    THEN CHOOSE i \in 1..Len(seq) : seq[i] = x /\ \A j \in 1..(i - 1) : seq[j] # x
    ELSE 0

JNull == [k |-> "null"]
JUndef == [k |-> "undef"]
JNum(n) == [k |-> "num", n |-> n]
JStr(s) == [k |-> "str", s |-> s]
JArr(items) == [k |-> "arr", items |-> items]
JObj(keys, vals) == [k |-> "obj", keys |-> keys, vals |-> vals]
JBool(b) == [k |-> "bool", b |-> b]

IsNullish(v) == v.k \in {"null", "undef"}

\* ToBoolean
Truthy(v) ==
    CASE v.k \in {"null", "undef"} -> FALSE
      [] v.k = "num" -> v.n # 0
      [] v.k = "str" -> v.s # <<>>
      [] v.k = "bool" -> v.b
      [] OTHER -> TRUE

\* v[key] for a non-nullish v and a string key that is no array index
Get(v, key) ==
    IF v.k = "obj" /\ indexOf(v.keys, key) > 0
    THEN v.vals[indexOf(v.keys, key)]
    ELSE JUndef

\* v.length where the code compares it with 0 (undefined behaves as 0 there)
LengthOf(v) ==
    CASE v.k = "arr" -> Len(v.items)
      [] v.k = "str" -> Len(v.s)
      [] OTHER -> 0

\* [...v] for an array or a string (a string spreads into its characters)
RECURSIVE CharsOf(_)
CharsOf(s) ==
    IF s = <<>> THEN <<>> ELSE <<JStr(<<Head(s)>>)>> \o CharsOf(Tail(s))

Spread(v) == IF v.k = "arr" THEN v.items ELSE CharsOf(v.s)

\* a === b on scalars
StrictEq(a, b) ==
    /\ a.k = b.k
    /\ a.k = "num" => a.n = b.n
    /\ a.k = "str" => a.s = b.s
    /\ a.k \notin {"arr", "obj"}

\* ToNumber of a string of the model's characters; "NaN" when it is no number
RECURSIVE DigitsValue(_, _)
DigitsValue(s, acc) ==
    IF s = <<>> THEN acc ELSE DigitsValue(Tail(s), 10 * acc + DigitVal(Head(s)))

StringToNumber(s) ==
    IF s = <<>> THEN 0
    ELSE IF \A i \in 1..Len(s) : IsDigit(s[i]) THEN DigitsValue(s, 0)
    ELSE -1     \* NaN (the model has no negative numbers)

\* code-unit lexicographic order of two strings
RECURSIVE StringLess(_, _)
StringLess(s, t) ==
    IF t = <<>> THEN FALSE
    ELSE IF s = <<>> THEN TRUE
    ELSE IF Head(s) = Head(t) THEN StringLess(Tail(s), Tail(t))
    ELSE CharCode(Head(s)) < CharCode(Head(t))

\* a < b for non-nullish scalars (Abstract Relational Comparison)
LessThan(a, b) ==
    IF a.k = "str" /\ b.k = "str" THEN StringLess(a.s, b.s)
    ELSE LET x == IF a.k = "str" THEN StringToNumber(a.s) ELSE a.n
             y == IF b.k = "str" THEN StringToNumber(b.s) ELSE b.n
         IN  x >= 0 /\ y >= 0 /\ x < y

-----------------------------------------------------------------------------
(* JSON.parse on the characters [ ] , { } and digits.                      *)

ParseFail == [ok |-> FALSE, val |-> JNull, next |-> 0]

\* the end of the digit run that starts at i
RECURSIVE DigitRunEnd(_, _)
DigitRunEnd(t, i) ==
    IF i <= Len(t) /\ IsDigit(t[i]) THEN DigitRunEnd(t, i + 1) ELSE i

\* number: 0 | [1-9][0-9]*   (a leading zero ends the number)
ParseNumber(t, i) ==
    IF t[i] = "0" THEN [ok |-> TRUE, val |-> JNum(0), next |-> i + 1]
    ELSE LET e == DigitRunEnd(t, i)
         IN  [ok |-> TRUE, val |-> JNum(DigitsValue(SubSeq(t, i, e - 1), 0)),
              next |-> e]

RECURSIVE ParseValue(_, _), ParseElements(_, _, _)
ParseValue(t, i) ==
    IF i > Len(t) THEN ParseFail
    ELSE IF t[i] = "[" THEN
        IF i + 1 <= Len(t) /\ t[i + 1] = "]"
        THEN [ok |-> TRUE, val |-> JArr(<<>>), next |-> i + 2]
        ELSE ParseElements(t, i + 1, <<>>)
    ELSE IF t[i] = "{" THEN
        \* a member needs a quoted key, and the model has no quote character
        IF i + 1 <= Len(t) /\ t[i + 1] = "}"
        THEN [ok |-> TRUE, val |-> JObj(<<>>, <<>>), next |-> i + 2]
        ELSE ParseFail
    ELSE IF IsDigit(t[i]) THEN ParseNumber(t, i)
    ELSE ParseFail

ParseElements(t, i, acc) ==
    LET r == ParseValue(t, i)
    IN  IF ~r.ok THEN ParseFail
        ELSE IF r.next <= Len(t) /\ t[r.next] = ","
        THEN ParseElements(t, r.next + 1, Append(acc, r.val))
        ELSE IF r.next <= Len(t) /\ t[r.next] = "]"
        THEN [ok |-> TRUE, val |-> JArr(Append(acc, r.val)), next |-> r.next + 1]
        ELSE ParseFail

\* JSON.parse: ok = FALSE stands for the SyntaxError it throws
JSONParse(t) ==
    LET r == ParseValue(t, 1)
    IN  IF r.ok /\ r.next = Len(t) + 1 THEN r ELSE ParseFail

-----------------------------------------------------------------------------
(* StructuredTableView: the row sort (currentTableData, lines 93-106).     *)

\* the comparator handed to Array.prototype.sort; a and b are rows
\* a comparator that lets the direction flip the null handling as well
CompareNullsFlipped(a, b, col, dir) ==
    LET aVal == Get(a, col)
        bVal == Get(b, col)
    IN  IF StrictEq(aVal, bVal) THEN 0
        ELSE LET comparison ==
                     IF IsNullish(aVal) THEN 1
                     ELSE IF IsNullish(bVal) THEN -1
                     ELSE IF LessThan(aVal, bVal) THEN -1 ELSE 1
             IN  IF dir = "asc" THEN comparison ELSE -comparison

\* the comparator of lines 96-105
Compare(a, b, col, dir) ==
    LET aVal == Get(a, col)
        bVal == Get(b, col)
    IN  IF StrictEq(aVal, bVal) THEN 0
        ELSE IF IsNullish(aVal) THEN 1
        ELSE IF IsNullish(bVal) THEN -1
        ELSE LET comparison == IF LessThan(aVal, bVal) THEN -1 ELSE 1
             IN  IF dir = "asc" THEN comparison ELSE -comparison

RECURSIVE Reverse(_)
Reverse(s) == IF s = <<>> THEN <<>> ELSE Reverse(Tail(s)) \o <<Head(s)>>

\* Array.prototype.sort on an array shorter than 64 elements, as the engine
\* does it: the leading run is found (and reversed when strictly descending),
\* and every later element is put in place by a binary insertion.
RECURSIVE RunEnd(_, _, _, _, _)
RunEnd(s, idx, descending, col, dir) ==
    IF idx > Len(s) THEN Len(s)
    ELSE LET order == Compare(s[idx], s[idx - 1], col, dir)
         IN  IF (descending /\ order >= 0) \/ (~descending /\ order < 0)
             THEN idx - 1
             ELSE RunEnd(s, idx + 1, descending, col, dir)

\* where the pivot goes among s[1..n]: left and right are 0-based, as in the engine
RECURSIVE InsertionPoint(_, _, _, _, _, _)
InsertionPoint(s, pivot, left, right, col, dir) ==
    IF left >= right THEN left
    ELSE LET mid == left + ((right - left) \div 2)
         IN  IF Compare(pivot, s[mid + 1], col, dir) < 0
             THEN InsertionPoint(s, pivot, left, mid, col, dir)
             ELSE InsertionPoint(s, pivot, mid + 1, right, col, dir)

RECURSIVE BinaryInsertionSort(_, _, _, _)
BinaryInsertionSort(s, start, col, dir) ==
    IF start > Len(s) THEN s
    ELSE LET pivot == s[start]
             left == InsertionPoint(s, pivot, 0, start - 1, col, dir)
             moved == SubSeq(s, 1, left) \o <<pivot>> \o SubSeq(s, left + 1, start - 1)
                      \o SubSeq(s, start + 1, Len(s))
         IN  BinaryInsertionSort(moved, start + 1, col, dir)

ArraySort(s, col, dir) ==
    IF Len(s) < 2 THEN s
    ELSE LET descending == Compare(s[2], s[1], col, dir) < 0
             run == RunEnd(s, 3, descending, col, dir)
             made == IF descending
                     THEN Reverse(SubSeq(s, 1, run)) \o SubSeq(s, run + 1, Len(s))
                     ELSE s
         IN  BinaryInsertionSort(made, run + 1, col, dir)

-----------------------------------------------------------------------------
(* StructuredTableView: what a render computes.                            *)

\* a parse that hands the raw text on when JSON.parse fails
parsedDataUncaught(d) ==
    IF d.k = "str"
    THEN LET r == JSONParse(d.s) IN IF r.ok THEN r.val ELSE d
    ELSE d

\* parsedData (lines 35-45); JNull stands for the null returned on a parse error
parsedData(d) ==
    IF d.k = "str"
    THEN LET r == JSONParse(d.s) IN IF r.ok THEN r.val ELSE JNull
    ELSE d

TablePrefix == <<"T", "a", "b", "l", "e", " ">>

RECURSIVE TableNames(_, _)
TableNames(i, n) ==
    IF i > n THEN <<>> ELSE <<TablePrefix \o NumToChars(i)>> \o TableNames(i + 1, n)

\* tables (lines 49-61): the names of the available tables
tables(pd) ==
    IF ~Truthy(pd) THEN <<>>
    ELSE IF pd.k = "arr" THEN TableNames(1, Len(pd.items))
    ELSE IF pd.k = "obj" THEN pd.keys
    ELSE <<>>

\* a filter that compares without lower-casing
MatchesSearchExact(table, term) == includes(table, term)

\* filteredTables (lines 64-66)
MatchesSearch(table, term) == includes(toLowerCase(table), toLowerCase(term))

filteredTables(pd, term) ==
    SelectSeq(tables(pd), LAMBDA table : MatchesSearch(table, term))

\* the useMemo of lines 72-76: the first table is selected while none is
InitialSelection(pd, sel) ==
    IF Len(tables(pd)) > 0 /\ sel = <<>> THEN tables(pd)[1] ELSE sel

\* tableData before the sort (lines 82-91)
tableDataOf(pd, sel) ==
    IF pd.k = "arr" THEN
        LET tableIndex == indexOf(tables(pd), sel)
        IN  IF tableIndex >= 1 /\ Truthy(pd.items[tableIndex])
            THEN pd.items[tableIndex]
            ELSE JArr(<<>>)
    ELSE IF pd.k = "obj" THEN
        IF Truthy(Get(pd, sel)) THEN Get(pd, sel) ELSE JArr(<<>>)
    ELSE JArr(<<>>)

\* the sort is applied (line 94)
SortApplies(td, col) == col # <<>> /\ LengthOf(td) > 0

\* the comparator reads a[sortColumn]: it throws on a null row it is called with
SortThrows(items) ==
    Len(items) >= 2 /\ \E i \in 1..Len(items) : IsNullish(items[i])

\* currentTableData (lines 79-109): thrown, or the value of the memo
currentTableData(pd, sel, col, dir) ==
    IF ~Truthy(pd) \/ sel = <<>> THEN [thrown |-> FALSE, val |-> JNull]
    ELSE LET td == tableDataOf(pd, sel)
         IN  IF SortApplies(td, col)
             THEN IF SortThrows(Spread(td))
                  THEN [thrown |-> TRUE, val |-> JNull]
                  ELSE [thrown |-> FALSE, val |-> JArr(ArraySort(Spread(td), col, dir))]
             ELSE [thrown |-> FALSE, val |-> td]

\* tableHeaders (lines 112-120)
tableHeaders(ctd) ==
    IF ~Truthy(ctd) \/ LengthOf(ctd) = 0 THEN <<>>
    ELSE LET firstRow == Spread(ctd)[1]
         IN  IF firstRow.k = "obj" THEN firstRow.keys ELSE <<>>

\* the <tbody> of lines 252-269: currentTableData.map, and row[header] per cell
BodyThrows(ctd) ==
    \/ ctd.k # "arr"
    \/ /\ tableHeaders(ctd) # <<>>
       /\ \E i \in 1..Len(ctd.items) : IsNullish(ctd.items[i])

\* what the component returns (lines 158-310)
Render(d, sel, col, dir) ==
    LET pd == parsedData(d)
        c == currentTableData(pd, sel, col, dir)
    IN  IF ~Truthy(pd) THEN "NoStructuredData"
        ELSE IF c.thrown THEN "Throw"
        ELSE IF Truthy(c.val) /\ LengthOf(c.val) > 0
        THEN IF BodyThrows(c.val) THEN "Throw" ELSE "Table"
        ELSE IF Len(tables(pd)) = 0 THEN "NoTables"
        ELSE "NoDataForTable"

\* the payload after a render whose sort works on the payload's own array
RenderedDataInPlace(d, sel, col, dir) ==
    IF d.k \notin {"arr", "obj"} \/ sel = <<>> THEN d
    ELSE LET td == tableDataOf(d, sel)
             c == currentTableData(d, sel, col, dir)
         IN  IF td.k # "arr" \/ ~SortApplies(td, col) \/ c.thrown THEN d
             ELSE IF d.k = "arr"
             THEN JArr([d.items EXCEPT ![indexOf(tables(d), sel)] = c.val])
             ELSE JObj(d.keys, [d.vals EXCEPT ![indexOf(d.keys, sel)] = c.val])

\* the payload after a render: the sort works on a copy ([...tableData], line 95)
RenderedData(d, sel, col, dir) == d

-----------------------------------------------------------------------------
(* StructuredTableView: payloads, state and event handlers.                *)

ColA == <<"a">>
ColB == <<"B">>
ColEmpty == <<>>          \* a column whose header is the empty string

\* rows with numbers, a null and a missing cell
TblNums ==
    JArr(<<JObj(<<ColA, ColB>>, <<JNum(2), JNum(1)>>),
           JObj(<<ColA, ColB>>, <<JNull, JNum(2)>>),
           JObj(<<ColA>>, <<JNum(1)>>)>>)

\* rows whose first column has the empty header
TblEmptyHeader ==
    JArr(<<JObj(<<ColEmpty, ColA>>, <<JNum(2), JNum(1)>>),
           JObj(<<ColEmpty, ColA>>, <<JNum(1), JNum(2)>>)>>)

\* a table with a null row
TblNullRow == JArr(<<JObj(<<ColA>>, <<JNum(1)>>), JNull>>)

\* what an entry of the payload may be: tables, and values that are no table
EntryValues ==
    {TblNums, TblEmptyHeader, TblNullRow, JArr(<<>>), JStr(<<"x", "y">>), JNum(5)}

KeyNames == <<<<"A", "b">>, <<"b">>, <<"a", "B">>, <<"B", "A">>>>

ArrayPayloads == {JArr(items) : items \in SeqsUpTo(EntryValues, MaxTables)}

ObjectPayloads ==
    {JObj(SubSeq(KeyNames, 1, Len(vals)), vals) : vals \in SeqsUpTo(EntryValues, MaxTables)}

TextChars == {"[", "]", ",", "0", "1", "{", "}"}

TextPayloads == {JStr(t) : t \in SeqsUpTo(TextChars, MaxTextLen)}

StvPayloads ==
    ArrayPayloads \cup ObjectPayloads \cup TextPayloads \cup {JNull, JNum(5)}

SearchChars == {"a", "B"}

SearchTerms == SeqsUpTo(SearchChars, MaxTermLen)

NoClick == <<"-">>        \* lastClicked before any header click

stvView == Render(data, selectedTable, sortColumn, sortDirection)

stvParsed == parsedData(data)

stvTables == tables(stvParsed)

stvFiltered == filteredTables(stvParsed, searchTerm)

stvRows == currentTableData(stvParsed, selectedTable, sortColumn, sortDirection).val

stvHeaders == tableHeaders(stvRows)

\* the controls exist while the main view is mounted
Mounted == stvView \notin {"NoStructuredData", "Throw"}

\* what is on screen: the selected table and its rows
Shown == [sel |-> selectedTable, rows |-> stvRows]

StvInit ==
    /\ data \in StvPayloads
    /\ supplied = data
    /\ searchTerm = <<>>
    /\ selectedTable = InitialSelection(parsedData(data), <<>>)
    /\ showOnlyValues = FALSE
    /\ sortColumn = <<>>
    /\ sortDirection = "asc"
    /\ clickParity = 0
    /\ lastClicked = NoClick
    /\ lastEvent = "mount"
    /\ prevShown = [sel |-> <<>>, rows |-> JNull]

\* onChange={(e) => setSearchTerm(e.target.value)}
SetSearchTerm ==
    \E term \in SearchTerms :
        LET sel == InitialSelection(stvParsed, selectedTable)
        IN  /\ Mounted
            /\ searchTerm' = term
            /\ selectedTable' = sel
            /\ data' = RenderedData(data, sel, sortColumn, sortDirection)
            /\ lastEvent' = "search"
            /\ prevShown' = Shown
            /\ UNCHANGED <<showOnlyValues, sortColumn, sortDirection, supplied,
                           clickParity, lastClicked>>
            /\ UNCHANGED <<dtVars, srtVars, auxVars>>

\* onChange={(e) => setSelectedTable(e.target.value)}: an option of the picker
SelectTable ==
    \E i \in 1..Len(stvFiltered) :
        LET sel == InitialSelection(stvParsed, stvFiltered[i])
        IN  /\ Mounted
            /\ Len(stvTables) > 1
            /\ selectedTable' = sel
            /\ data' = RenderedData(data, sel, sortColumn, sortDirection)
            /\ lastEvent' = "select"
            /\ prevShown' = Shown
            /\ UNCHANGED <<searchTerm, showOnlyValues, sortColumn, sortDirection,
                           supplied, clickParity, lastClicked>>
            /\ UNCHANGED <<dtVars, srtVars, auxVars>>

\* handleSort (lines 122-129): the sort state after the handler
handleSort(column) ==
    IF sortColumn = column
    THEN [sortColumn |-> sortColumn,
          sortDirection |-> IF sortDirection = "asc" THEN "desc" ELSE "asc"]
    ELSE [sortColumn |-> column, sortDirection |-> "asc"]

\* onClick={() => handleSort(header)} on a header of the table shown
ClickHeader ==
    \E i \in 1..Len(stvHeaders) :
        LET sel == InitialSelection(stvParsed, selectedTable)
            sorted == handleSort(stvHeaders[i])
        IN  /\ stvView = "Table"
            /\ sortColumn' = sorted.sortColumn
            /\ sortDirection' = sorted.sortDirection
            /\ clickParity' = IF lastClicked = stvHeaders[i] THEN 1 - clickParity ELSE 1
            /\ lastClicked' = stvHeaders[i]
            /\ selectedTable' = sel
            /\ data' = RenderedData(data, sel, sorted.sortColumn, sorted.sortDirection)
            /\ lastEvent' = "sort"
            /\ prevShown' = Shown
            /\ UNCHANGED <<searchTerm, showOnlyValues, supplied>>
            /\ UNCHANGED <<dtVars, srtVars, auxVars>>

\* onClick={() => setShowOnlyValues(!showOnlyValues)}
ToggleValues ==
    LET sel == InitialSelection(stvParsed, selectedTable)
    IN  /\ Mounted
        /\ showOnlyValues' = ~showOnlyValues
        /\ selectedTable' = sel
        /\ data' = RenderedData(data, sel, sortColumn, sortDirection)
        /\ lastEvent' = "toggle"
        /\ prevShown' = Shown
        /\ UNCHANGED <<searchTerm, sortColumn, sortDirection, supplied,
                       clickParity, lastClicked>>
        /\ UNCHANGED <<dtVars, srtVars, auxVars>>

StvIdle ==
    /\ data = JNull
    /\ supplied = JNull
    /\ searchTerm = <<>>
    /\ selectedTable = <<>>
    /\ showOnlyValues = FALSE
    /\ sortColumn = <<>>
    /\ sortDirection = "asc"
    /\ clickParity = 0
    /\ lastClicked = NoClick
    /\ lastEvent = "mount"
    /\ prevShown = [sel |-> <<>>, rows |-> JNull]

-----------------------------------------------------------------------------
(* The row sort alone: one table, sorted by its column v.                  *)

ColId == <<"i", "d">>
ColV == <<"v">>

\* what a cell of column v may hold; JUndef is a row without the key
SortCells == {JNull, JUndef, JNum(1), JNum(2), JNum(3)}

\* row i of the table: its position as id, and its cell
SortRow(i, cell) ==
    IF cell = JUndef THEN JObj(<<ColId>>, <<JNum(i)>>)
    ELSE JObj(<<ColId, ColV>>, <<JNum(i), cell>>)

RECURSIVE SortRowsFrom(_, _)
SortRowsFrom(cells, i) ==
    IF cells = <<>> THEN <<>>
    ELSE <<SortRow(i, Head(cells))>> \o SortRowsFrom(Tail(cells), i + 1)

\* the rows the view shows for the one-table payload [rows], sorted by col
SortedView(rows, col, dir) ==
    currentTableData(JArr(<<JArr(rows)>>), TableNames(1, 1)[1], col, dir).val.items

SrtInit ==
    /\ srtIn \in {SortRowsFrom(cells, 1) : cells \in SeqsUpTo(SortCells, MaxSortRows)}
    /\ srtDir = "none"
    /\ srtOut = srtIn

\* the table is shown sorted ascending by v
SortAscending ==
    /\ srtDir' = "asc"
    /\ srtOut' = SortedView(srtIn, ColV, "asc")
    /\ UNCHANGED srtIn
    /\ UNCHANGED <<dtVars, stvVars, auxVars>>

\* the table is shown sorted descending by v
SortDescending ==
    /\ srtDir' = "desc"
    /\ srtOut' = SortedView(srtIn, ColV, "desc")
    /\ UNCHANGED srtIn
    /\ UNCHANGED <<dtVars, stvVars, auxVars>>

SrtIdle ==
    /\ srtIn = <<>>
    /\ srtDir = "none"
    /\ srtOut = <<>>

-----------------------------------------------------------------------------
(* The row sort on columns of mixed values.  On such a column the          *)
(* comparator is not a consistent order (3 < 'a' and 'a' < 3 are both      *)
(* false, so both orders of the pair return 1), and the order the sort     *)
(* produces depends on the algorithm of the engine: binary insertion in    *)
(* V8, straight insertion in SpiderMonkey, for arrays this short.          *)

\* straight insertion: item goes left past every element that compares above it
RECURSIVE InsertLeft(_, _, _, _, _)
InsertLeft(s, item, j, col, dir) ==
    IF j >= 1 /\ Compare(s[j], item, col, dir) > 0
    THEN InsertLeft(s, item, j - 1, col, dir)
    ELSE SubSeq(s, 1, j) \o <<item>> \o SubSeq(s, j + 1, Len(s))

RECURSIVE InsertionSort(_, _, _, _)
InsertionSort(s, i, col, dir) ==
    IF i > Len(s) THEN s
    ELSE InsertionSort(InsertLeft(SubSeq(s, 1, i - 1), s[i], i - 1, col, dir)
                       \o SubSeq(s, i + 1, Len(s)), i + 1, col, dir)

Engines == {"binary-insertion", "straight-insertion"}

\* [...tableData].sort(comparator) under the given engine
EngineSort(engine, rows, col, dir) ==
    IF engine = "binary-insertion" THEN ArraySort(rows, col, dir)
    ELSE InsertionSort(rows, 2, col, dir)

\* most rows of a table with a column of mixed values
MaxMixedRows == 4

MixedCells == {JNull, JNum(1), JNum(3), JStr(<<"a">>), JStr(<<"2">>)}

MixInit ==
    /\ srtIn \in {SortRowsFrom(cells, 1) : cells \in SeqsUpTo(MixedCells, MaxMixedRows)}
    /\ srtEngine \in Engines
    /\ srtDir = "none"
    /\ srtOut = srtIn
    /\ srtAgain = [done |-> FALSE, rows |-> <<>>]

\* the table is shown sorted ascending by v
SortMixed ==
    /\ srtDir = "none"
    /\ srtDir' = "asc"
    /\ srtOut' = EngineSort(srtEngine, srtIn, ColV, "asc")
    /\ UNCHANGED <<srtIn, srtEngine, srtAgain>>
    /\ UNCHANGED <<dtVars, stvVars, csvVars, invVars, extVars, rdVars, appVars, expVars>>

\* the rows shown are sorted ascending by v once more
SortAgain ==
    /\ srtDir = "asc"
    /\ srtAgain' = [done |-> TRUE, rows |-> EngineSort(srtEngine, srtOut, ColV, "asc")]
    /\ UNCHANGED <<srtIn, srtDir, srtOut, srtEngine>>
    /\ UNCHANGED <<dtVars, stvVars, csvVars, invVars, extVars, rdVars, appVars, expVars>>

-----------------------------------------------------------------------------
(* Strings of values, and the CSV encoders.                                *)

Quote == "\""
Comma == ","
Newline == "\n"

\* String(value), for the scalars a cell holds
StringOf(v) ==
    CASE v.k = "str" -> v.s
      [] v.k = "num" -> NumToChars(v.n)
      [] v.k = "bool" -> IF v.b THEN <<"t", "r", "u", "e">> ELSE <<"f", "a", "l", "s", "e">>
      [] v.k = "null" -> <<"n", "u", "l", "l">>
      [] v.k = "undef" -> <<"u", "n", "d", "e", "f", "i", "n", "e", "d">>
      [] OTHER -> <<"[", "o", "b", "j", "e", "c", "t", " ", "O", "b", "j", "e", "c", "t", "]">>

\* Array.prototype.join on strings
RECURSIVE join(_, _)
join(parts, sep) ==
    IF parts = <<>> THEN <<>>
    ELSE IF Len(parts) = 1 THEN parts[1]
    ELSE parts[1] \o sep \o join(Tail(parts), sep)

\* the string join makes of an element: '' for null and undefined
ElementString(v) == IF IsNullish(v) THEN <<>> ELSE StringOf(v)

RECURSIVE ElementStrings(_)
ElementStrings(vals) ==
    IF vals = <<>> THEN <<>>
    ELSE <<ElementString(Head(vals))>> \o ElementStrings(Tail(vals))

\* s.replace(/"/g, '""')
RECURSIVE replaceQuotes(_)
replaceQuotes(s) ==
    IF s = <<>> THEN <<>>
    ELSE (IF Head(s) = Quote THEN <<Quote, Quote>> ELSE <<Head(s)>>)
         \o replaceQuotes(Tail(s))

\* StructuredTableView.exportToCSV, one cell (lines 139-144)
exportCell(value) ==
    IF value.k = "str" /\ (includes(value.s, <<Comma>>) \/ includes(value.s, <<Quote>>))
    THEN JStr(<<Quote>> \o replaceQuotes(value.s) \o <<Quote>>)
    ELSE IF Truthy(value) THEN value ELSE JStr(<<>>)

RECURSIVE exportCells(_, _)
exportCells(row, headers) ==
    IF headers = <<>> THEN <<>>
    ELSE <<exportCell(Get(row, Head(headers)))>> \o exportCells(row, Tail(headers))

RECURSIVE exportRows(_, _)
exportRows(rows, headers) ==
    IF rows = <<>> THEN <<>>
    ELSE <<join(ElementStrings(exportCells(Head(rows), headers)), <<Comma>>)>>
         \o exportRows(Tail(rows), headers)

\* StructuredTableView.exportToCSV (lines 131-156): [download |-> FALSE] when
\* the handler returns at line 132, the content of the file otherwise
exportToCSV(ctd) ==
    IF ~Truthy(ctd) \/ LengthOf(ctd) = 0 THEN [download |-> FALSE, content |-> <<>>]
    ELSE LET headers == tableHeaders(ctd)
         IN  [download |-> TRUE,
              content |-> join(<<join(headers, <<Comma>>)>>
                               \o exportRows(ctd.items, headers), <<Newline>>)]

headerMappings ==
    {<<<<"S", "e", "r", "i", "a", "l", "_", "N", "u", "m", "b", "e", "r">>,
       <<"S", ".", "N", "o", ".">>>>,
     <<<<"P", "r", "o", "d", "u", "c", "t", "_", "D", "e", "s", "c", "r", "i", "p", "t", "i", "o", "n">>,
       <<"P", "r", "o", "d", "u", "c", "t", " ", "D", "e", "s", "c", "r", "i", "p", "t", "i", "o", "n">>>>,
     <<<<"B", "a", "t", "c", "h", "_", "N", "u", "m", "b", "e", "r">>,
       <<"B", "a", "t", "c", "h", " ", "N", "o", ".">>>>,
     <<<<"Q", "u", "a", "n", "t", "i", "t", "y">>,
       <<"Q", "t", "y">>>>,
     <<<<"U", "n", "i", "t", "_", "P", "r", "i", "c", "e">>,
       <<"U", "n", "i", "t", " ", "P", "r", "i", "c", "e">>>>,
     <<<<"T", "o", "t", "a", "l", "_", "A", "m", "o", "u", "n", "t">>,
       <<"T", "o", "t", "a", "l", " ", "A", "m", "o", "u", "n", "t">>>>,
     <<<<"H", "S", "N", "_", "C", "o", "d", "e">>,
       <<"H", "S", "N", " ", "C", "o", "d", "e">>>>,
     <<<<"G", "S", "T", "_", "D", "e", "t", "a", "i", "l", "s">>,
       <<"G", "S", "T", " ", "%">>>>,
     <<<<"D", "i", "s", "c", "o", "u", "n", "t">>,
       <<"D", "i", "s", "c", "o", "u", "n", "t">>>>,
     <<<<"E", "x", "p", "i", "r", "y", "_", "D", "a", "t", "e">>,
       <<"E", "x", "p", "i", "r", "y", " ", "D", "a", "t", "e">>>>,
     <<<<"C", "a", "l", "c", "u", "l", "a", "t", "e", "d", "_", "T", "o", "t", "a", "l">>,
       <<"C", "a", "l", "c", ".", " ", "T", "o", "t", "a", "l">>>>}

\* header.replace(/_/g, ' ')
RECURSIVE replaceUnderscores(_)
replaceUnderscores(s) ==
    IF s = <<>> THEN <<>>
    ELSE <<IF Head(s) = "_" THEN " " ELSE Head(s)>> \o replaceUnderscores(Tail(s))

\* InvoiceTable.formatColumnHeader (lines 28-44)
formatColumnHeader(header) ==
    IF \E m \in headerMappings : m[1] = header
    THEN (CHOOSE m \in headerMappings : m[1] = header)[2]
    ELSE replaceUnderscores(header)

RECURSIVE formatColumnHeaders(_)
formatColumnHeaders(headers) ==
    IF headers = <<>> THEN <<>>
    ELSE <<formatColumnHeader(Head(headers))>> \o formatColumnHeaders(Tail(headers))

\* InvoiceTable.exportInvoiceTableToExcel, one cell (lines 223-226)
invoiceCell(v) ==
    LET value == IF Truthy(v) THEN v ELSE JStr(<<>>)
    IN  <<Quote>> \o replaceQuotes(StringOf(value)) \o <<Quote>>

RECURSIVE invoiceCells(_, _)
invoiceCells(row, headers) ==
    IF headers = <<>> THEN <<>>
    ELSE <<invoiceCell(Get(row, Head(headers)))>> \o invoiceCells(row, Tail(headers))

RECURSIVE invoiceRows(_, _)
invoiceRows(rows, headers) ==
    IF rows = <<>> THEN <<>>
    ELSE <<join(invoiceCells(Head(rows), headers), <<Comma>>)>>
         \o invoiceRows(Tail(rows), headers)

\* InvoiceTable.exportInvoiceTableToExcel (lines 217-249): the file content
exportInvoiceTableToExcel(table, headers) ==
    join(<<join(formatColumnHeaders(headers), <<Comma>>)>>
         \o invoiceRows(table.rows, headers), <<Newline>>)

-----------------------------------------------------------------------------
(* InvoiceTable.tsx: payloads, state and event handlers.                   *)

RowNumberKey == <<"r", "o", "w", "N", "u", "m", "b", "e", "r">>
ProductKey == <<"P", "r", "o", "d", "u", "c", "t">>
QuantityKey == <<"Q", "u", "a", "n", "t", "i", "t", "y">>
BatchKey == <<"B", "a", "t", "c", "h", "_", "N", "o">>

\* headers that keep every key of the first row
invoiceHeadersUnfiltered(table) ==
    IF table.own THEN table.headers ELSE table.rows[1].keys

\* the headers a table is shown and exported with (line 276)
invoiceHeaders(table) ==
    IF table.own THEN table.headers
    ELSE SelectSeq(table.rows[1].keys, LAMBDA key : key # RowNumberKey)

\* most tables of a payload handed to InvoiceTable
MaxInvTables == 2
\* most rows of such a table
MaxInvRows == 2

InvKeyLists ==
    {<<ProductKey, QuantityKey>>, <<RowNumberKey, ProductKey>>,
     <<BatchKey, RowNumberKey, QuantityKey>>, <<QuantityKey, ProductKey>>}

\* row i of a table with the given keys: the cell under the j-th key is i + j
InvRow(keys, i) == JObj(keys, [j \in 1..Len(keys) |-> JNum(i + j)])

InvRows(keys, n) == [i \in 1..n |-> InvRow(keys, i)]

\* what an entry of data.tables may be: own is whether it has a headers field
InvTables ==
    {[own |-> FALSE, headers |-> <<>>, rows |-> InvRows(keys, n)] :
        keys \in InvKeyLists, n \in 0..MaxInvRows}
    \cup {[own |-> TRUE, headers |-> hs, rows |-> InvRows(keys, n)] :
            hs \in {<<>>, <<QuantityKey>>, <<ProductKey, QuantityKey>>},
            keys \in InvKeyLists, n \in 0..MaxInvRows}

\* data.tables may be missing or a list of entries
InvPayloads ==
    {[has |-> FALSE, tables |-> <<>>]}
    \cup {[has |-> TRUE, tables |-> ts] : ts \in SeqsUpTo(InvTables, MaxInvTables)}

invTables == IF invData.has THEN invData.tables ELSE <<>>

\* tables[selectedTable]; never out of range, the options are the indices
currentTable == invTables[invSelected + 1]

\* what InvoiceTable returns (lines 251-274, 278)
invView ==
    IF Len(invTables) = 0 THEN "NoInvoiceData"
    ELSE IF Len(currentTable.rows) = 0 THEN "NoTableData"
    ELSE "Table"

\* const headers (line 276) of the table shown
invHeaders == invoiceHeaders(currentTable)

InvInit ==
    /\ invData \in InvPayloads
    /\ invSelected = 0

InvIdle ==
    /\ invData = [has |-> FALSE, tables |-> <<>>]
    /\ invSelected = 0

CsvIdle ==
    /\ csvRows = JArr(<<>>)
    /\ csvText = <<>>
    /\ csvBy = "none"
    /\ csvIndex = 0

MixIdle ==
    /\ srtEngine = "none"
    /\ srtAgain = [done |-> FALSE, rows |-> <<>>]

\* onChange={(e) => setSelectedTable(Number(e.target.value))} (lines 291-304)
SetSelectedTable ==
    \E index \in 0..(Len(invTables) - 1) :
        /\ invView = "Table"
        /\ Len(invTables) > 1
        /\ invSelected' = index
        /\ UNCHANGED <<invData, csvVars, mixVars, extVars, rdVars, appVars, expVars>>
        /\ UNCHANGED <<dtVars, stvVars, srtVars>>

\* onClick={() => exportInvoiceTableToExcel(currentTable, headers, selectedTable)}
ExportInvoiceTable ==
    /\ invView = "Table"
    /\ csvText' = exportInvoiceTableToExcel(currentTable, invHeaders)
    /\ csvBy' = "InvoiceTable"
    /\ csvIndex' = invSelected + 1
    /\ UNCHANGED <<csvRows, invVars, mixVars, extVars, rdVars, appVars, expVars>>
    /\ UNCHANGED <<dtVars, stvVars, srtVars>>

-----------------------------------------------------------------------------
(* The CSV exports: one table, exported by either component.               *)

\* most columns of a table handed to the CSV export
MaxCsvCols == 2
\* most rows of such a table
MaxCsvRows == 2

CsvHeaderNames == {<<"h">>, <<"h", Comma, "k">>, <<"q", Quote>>}

CsvCells ==
    {JNull, JNum(0), JNum(7), JBool(FALSE), JStr(<<"x", Comma, "y">>),
     JStr(<<Quote, "x">>)}

\* lists of distinct header names
CsvHeaderLists ==
    {hs \in SeqsUpTo(CsvHeaderNames, MaxCsvCols) :
        Len(hs) >= 1 /\ \A i, j \in 1..Len(hs) : i # j => hs[i] # hs[j]}

RECURSIVE CsvRowsOf(_, _)
CsvRowsOf(hs, cellRows) ==
    IF cellRows = <<>> THEN <<>>
    ELSE <<JObj(hs, Head(cellRows))>> \o CsvRowsOf(hs, Tail(cellRows))

CsvTables ==
    UNION {{JArr(CsvRowsOf(hs, cellRows)) :
               cellRows \in SeqsUpTo([1..Len(hs) -> CsvCells], MaxCsvRows)} :
           hs \in CsvHeaderLists}

\* the table is shown by StructuredTableView, and by InvoiceTable as the one
\* entry of data.tables, without a headers field
CsvInit ==
    /\ csvRows \in CsvTables
    /\ csvText = <<>>
    /\ csvBy = "none"
    /\ csvIndex = 0
    /\ invData = [has |-> TRUE,
                  tables |-> <<[own |-> FALSE, headers |-> <<>>, rows |-> csvRows.items]>>]
    /\ invSelected = 0

\* onClick={exportToCSV} of StructuredTableView
ExportToCSV ==
    /\ IF exportToCSV(csvRows).download
       THEN /\ csvText' = exportToCSV(csvRows).content
            /\ csvBy' = "StructuredTableView"
       ELSE UNCHANGED <<csvText, csvBy>>
    /\ UNCHANGED <<csvRows, csvIndex, invVars, mixVars, extVars, rdVars, appVars, expVars>>
    /\ UNCHANGED <<dtVars, stvVars, srtVars>>

-----------------------------------------------------------------------------
(* ResultsDisplay.tsx: the regular expressions of the text functions.  A   *)
(* match is found the way the engine finds it: leftmost, each quantifier   *)
(* greedy, giving back on failure.                                         *)

DigitChars == {Digits[i] : i \in 1..Len(Digits)}
UpperChars == {Upper[i] : i \in 1..Len(Upper)}
LowerChars == {Lower[i] : i \in 1..Len(Lower)}
LetterChars == UpperChars \cup LowerChars
\* \s
SpaceChars == {" ", "\n", "\t"}

\* the character at position i, "" outside the text
At(t, i) == IF i >= 1 /\ i <= Len(t) THEN t[i] ELSE ""

\* how many characters of the class follow from position i on
RECURSIVE RunLen(_, _, _)
RunLen(t, i, class) ==
    IF i <= Len(t) /\ t[i] \in class THEN 1 + RunLen(t, i + 1, class) ELSE 0

Min(a, b) == IF a < b THEN a ELSE b

\* (?:,\d{3})* from position j: the position after the groups
RECURSIVE AmountGroups(_, _)
AmountGroups(t, j) ==
    IF At(t, j) = Comma /\ RunLen(t, j + 1, DigitChars) >= 3
    THEN AmountGroups(t, j + 4)
    ELSE j

\* \d{1,3}(?:,\d{3})*\.\d{2} at i with n leading digits: last position, or 0
AmountEnd(t, i, n) ==
    IF RunLen(t, i, DigitChars) >= n
    THEN LET j == AmountGroups(t, i + n)
         IN  IF At(t, j) = "." /\ RunLen(t, j + 1, DigitChars) >= 2 THEN j + 2 ELSE 0
    ELSE 0

AmountAt(t, i) ==
    IF AmountEnd(t, i, 3) > 0 THEN AmountEnd(t, i, 3)
    ELSE IF AmountEnd(t, i, 2) > 0 THEN AmountEnd(t, i, 2)
    ELSE AmountEnd(t, i, 1)

\* \d{1,2}\/\d{1,2}\/\d{4} at i with n and m digits: last position, or 0
SlashDateEnd(t, i, n, m) ==
    IF /\ RunLen(t, i, DigitChars) >= n
       /\ At(t, i + n) = "/"
       /\ RunLen(t, i + n + 1, DigitChars) >= m
       /\ At(t, i + n + 1 + m) = "/"
       /\ RunLen(t, i + n + m + 2, DigitChars) >= 4
    THEN i + n + m + 5
    ELSE 0

\* \d{1,2}\s+[A-Za-z]+\s+\d{4} at i with n digits: last position, or 0
WordDateEnd(t, i, n) ==
    IF RunLen(t, i, DigitChars) >= n
    THEN LET s1 == RunLen(t, i + n, SpaceChars)
             w == RunLen(t, i + n + s1, LetterChars)
             s2 == RunLen(t, i + n + s1 + w, SpaceChars)
             y == i + n + s1 + w + s2
         IN  IF s1 >= 1 /\ w >= 1 /\ s2 >= 1 /\ RunLen(t, y, DigitChars) >= 4
             THEN y + 3 ELSE 0
    ELSE 0

\* \d{1,2}\/\d{1,2}\/\d{4}
SlashDateAt(t, i) ==
    IF SlashDateEnd(t, i, 2, 2) > 0 THEN SlashDateEnd(t, i, 2, 2)
    ELSE IF SlashDateEnd(t, i, 2, 1) > 0 THEN SlashDateEnd(t, i, 2, 1)
    ELSE IF SlashDateEnd(t, i, 1, 2) > 0 THEN SlashDateEnd(t, i, 1, 2)
    ELSE SlashDateEnd(t, i, 1, 1)

\* \d{1,2}\/\d{1,2}\/\d{4}|\d{1,2}\s+[A-Za-z]+\s+\d{4}
DateAt(t, i) ==
    IF SlashDateAt(t, i) > 0 THEN SlashDateAt(t, i)
    ELSE IF WordDateEnd(t, i, 2) > 0 THEN WordDateEnd(t, i, 2)
    ELSE WordDateEnd(t, i, 1)

\* [A-Z]{2,8}\d{3,6}
CodeAt(t, i) ==
    LET u == RunLen(t, i, UpperChars)
        d == RunLen(t, i + u, DigitChars)
    IN  IF u >= 2 /\ u <= 8 /\ d >= 3 THEN i + u + Min(d, 6) - 1 ELSE 0

\* \d{10,16}
AccountAt(t, i) ==
    LET d == RunLen(t, i, DigitChars)
    IN  IF d >= 10 THEN i + Min(d, 16) - 1 ELSE 0

\* \d{2,3}
NumberAt(t, i) ==
    LET d == RunLen(t, i, DigitChars)
    IN  IF d >= 2 THEN i + Min(d, 3) - 1 ELSE 0

\* the last position of the match of a pattern at i, or 0
MatchAt(kind, t, i) ==
    CASE kind = "amount" -> AmountAt(t, i)
      [] kind = "date" -> DateAt(t, i)
      [] kind = "slashdate" -> SlashDateAt(t, i)
      [] kind = "code" -> CodeAt(t, i)
      [] kind = "account" -> AccountAt(t, i)
      [] kind = "number" -> NumberAt(t, i)

\* String.prototype.match with the g flag: the matched substrings
RECURSIVE MatchAll(_, _, _)
MatchAll(kind, t, i) ==
    IF i > Len(t) THEN <<>>
    ELSE IF MatchAt(kind, t, i) > 0
    THEN <<SubSeq(t, i, MatchAt(kind, t, i))>> \o MatchAll(kind, t, MatchAt(kind, t, i) + 1)
    ELSE MatchAll(kind, t, i + 1)

\* String.prototype.replace(/(pattern)/g, prefix + '$1')
RECURSIVE ReplaceAll(_, _, _, _)
ReplaceAll(kind, t, i, prefix) ==
    IF i > Len(t) THEN <<>>
    ELSE IF MatchAt(kind, t, i) > 0
    THEN prefix \o SubSeq(t, i, MatchAt(kind, t, i))
         \o ReplaceAll(kind, t, MatchAt(kind, t, i) + 1, prefix)
    ELSE <<t[i]>> \o ReplaceAll(kind, t, i + 1, prefix)

\* String.prototype.trim
RECURSIVE trimStart(_)
trimStart(t) == IF t # <<>> /\ Head(t) \in SpaceChars THEN trimStart(Tail(t)) ELSE t

RECURSIVE trimEnd(_)
trimEnd(t) ==
    IF t # <<>> /\ t[Len(t)] \in SpaceChars THEN trimEnd(SubSeq(t, 1, Len(t) - 1)) ELSE t

trim(t) == trimEnd(trimStart(t))

\* text.split('\n')
RECURSIVE splitLines(_, _)
splitLines(t, line) ==
    IF t = <<>> THEN <<line>>
    ELSE IF Head(t) = Newline THEN <<line>> \o splitLines(Tail(t), <<>>)
    ELSE splitLines(Tail(t), line \o <<Head(t)>>)

\* text.split('\n').filter(line => line.trim().length > 0)
nonBlankLines(t) == SelectSeq(splitLines(t, <<>>), LAMBDA line : trim(line) # <<>>)

\* text.split(/\s+/).filter(word => word.trim().length > 0).length
RECURSIVE wordCount(_, _)
wordCount(t, i) ==
    IF i > Len(t) THEN 0
    ELSE (IF t[i] \notin SpaceChars /\ (i = 1 \/ t[i - 1] \in SpaceChars) THEN 1 ELSE 0)
         + wordCount(t, i + 1)

-----------------------------------------------------------------------------
(* ResultsDisplay.tsx: the key-value pass (lines 588-601).                 *)

\* [A-Z][a-z]+ at i: last position, or 0
WordEndAt(t, i) ==
    IF At(t, i) \in UpperChars /\ RunLen(t, i + 1, LowerChars) >= 1
    THEN i + RunLen(t, i + 1, LowerChars)
    ELSE 0

\* [A-Z][a-z]+(?:\s+[A-Z][a-z]+)* at i: the last position of each word taken
RECURSIVE PhraseEnds(_, _)
PhraseEnds(t, i) ==
    IF WordEndAt(t, i) = 0 THEN <<>>
    ELSE LET e == WordEndAt(t, i)
             s == RunLen(t, e + 1, SpaceChars)
         IN  IF s >= 1 /\ WordEndAt(t, e + 1 + s) > 0
             THEN <<e>> \o PhraseEnds(t, e + 1 + s)
             ELSE <<e>>

\* where group 1 of the key-value pattern ends in a line, or 0 for no match:
\* the phrase as long as it can be while (.+) still has a character to take
keyEnd(line) ==
    LET ends == PhraseEnds(line, 1)
        n == Len(ends)
    IN  IF n = 0 THEN 0
        ELSE IF ends[n] < Len(line) THEN ends[n]
        ELSE IF At(line, Len(line) - 1) \in LowerChars THEN Len(line) - 1
        ELSE IF n >= 2 THEN ends[n - 1]
        ELSE 0

\* where group 2 starts after a group 1 ending at p: \s*[:]?\s* takes all it
\* can, in this order of preference, while leaving (.+) a character
valueStart(line, p) ==
    LET Cands ==
            {x \in (0..(Len(line) - p)) \X {0, 1} \X (0..(Len(line) - p)) :
                /\ x[1] <= RunLen(line, p + 1, SpaceChars)
                /\ x[2] = 1 => At(line, p + x[1] + 1) = ":"
                /\ x[3] <= RunLen(line, p + x[1] + x[2] + 1, SpaceChars)
                /\ p + x[1] + x[2] + x[3] + 1 <= Len(line)}
        Before(x, y) ==
            \/ x[1] > y[1]
            \/ x[1] = y[1] /\ x[2] > y[2]
            \/ x[1] = y[1] /\ x[2] = y[2] /\ x[3] >= y[3]
        best == CHOOSE x \in Cands : \A y \in Cands : Before(x, y)
    IN  p + best[1] + best[2] + best[3] + 1

\* key.replace(/\s+/g, '').toLowerCase()
cleanKey(key) == toLowerCase(SelectSeq(key, LAMBDA c : c \notin SpaceChars))

\* keyValuePairs[cleanKey] = value, on the pairs in insertion order
putPair(pairs, key, value) ==
    IF \E i \in 1..Len(pairs) : pairs[i].key = key
    THEN [i \in 1..Len(pairs) |->
             IF pairs[i].key = key THEN [key |-> key, value |-> value] ELSE pairs[i]]
    ELSE pairs \o <<[key |-> key, value |-> value]>>

\* lines.forEach(...) of lines 589-601
RECURSIVE keyValuePass(_, _)
keyValuePass(lines, pairs) ==
    IF lines = <<>> THEN pairs
    ELSE LET line == Head(lines)
             p == keyEnd(line)
         IN  IF p = 0 THEN keyValuePass(Tail(lines), pairs)
             ELSE keyValuePass(Tail(lines),
                      putPair(pairs, cleanKey(trim(SubSeq(line, 1, p))),
                              trim(SubSeq(line, valueStart(line, p), Len(line)))))

-----------------------------------------------------------------------------
(* ResultsDisplay.tsx: parseToStructuredJson, parseToSimpleFormat and      *)
(* formatExtractedText.  A result lists the fields of each kind; a section *)
(* the code leaves out for want of a match is an empty list here.  The     *)
(* company and address passes of parseToStructuredJson need a company      *)
(* suffix word or a six-digit postcode after two commas; no text of the    *)
(* model has either, so these two sections are absent from every result.   *)

\* the match as it stands, separators kept
keepCommas(s) == s

\* amt.replace(/,/g, '')
stripCommas(s) == SelectSeq(s, LAMBDA c : c # Comma)

RECURSIVE digitsValue(_, _, _)
digitsValue(s, i, n) ==
    IF n = 0 THEN 0 ELSE digitsValue(s, i, n - 1) * 10 + DigitVal(s[i + n - 1])

\* parseFloat of a text that starts with a digit, in hundredths: the leading
\* digits, and the first two decimals where a '.' and digits follow them
parseFloatHundredths(s) ==
    LET n == RunLen(s, 1, DigitChars)
        f == IF At(s, n + 1) = "." THEN Min(RunLen(s, n + 2, DigitChars), 2) ELSE 0
    IN  digitsValue(s, 1, n) * 100
        + (IF f = 2 THEN digitsValue(s, n + 2, 2)
           ELSE IF f = 1 THEN digitsValue(s, n + 2, 1) * 10 ELSE 0)

RECURSIVE amountValues(_)
amountValues(matches) ==
    IF matches = <<>> THEN <<>>
    ELSE <<parseFloatHundredths(stripCommas(Head(matches)))>> \o amountValues(Tail(matches))

RECURSIVE sum(_)
sum(values) == IF values = <<>> THEN 0 ELSE Head(values) + sum(Tail(values))

NoResult ==
    [fn |-> "none", null |-> FALSE, keyValuePairs |-> <<>>, amounts |-> <<>>,
     dates |-> <<>>, codes |-> <<>>, accounts |-> <<>>, totalLines |-> 0,
     totalWords |-> 0, totalCharacters |-> 0, totalAmount |-> 0, stages |-> <<>>]

\* parseToStructuredJson (lines 556-649)
parseToStructuredJson(text) ==
    IF text = <<>> THEN [NoResult EXCEPT !.fn = "parseToStructuredJson", !.null = TRUE]
    ELSE [NoResult EXCEPT
             !.fn = "parseToStructuredJson",
             !.keyValuePairs = keyValuePass(nonBlankLines(text), <<>>),
             !.amounts = amountValues(MatchAll("amount", text, 1)),
             !.dates = MatchAll("date", text, 1),
             !.codes = MatchAll("code", text, 1),
             !.accounts = MatchAll("account", text, 1)]

\* parseToSimpleFormat (lines 651-689)
parseToSimpleFormat(text) ==
    IF text = <<>> THEN [NoResult EXCEPT !.fn = "parseToSimpleFormat", !.null = TRUE]
    ELSE [NoResult EXCEPT
             !.fn = "parseToSimpleFormat",
             !.totalLines = Len(nonBlankLines(text)),
             !.totalWords = wordCount(text, 1),
             !.totalCharacters = Len(text),
             !.amounts = amountValues(MatchAll("amount", text, 1)),
             !.totalAmount = sum(amountValues(MatchAll("amount", text, 1))),
             !.dates = MatchAll("date", text, 1)]

\* text.replace(/\\n/g, '\n')
RECURSIVE unescapeNewlines(_)
unescapeNewlines(t) ==
    IF t = <<>> THEN <<>>
    ELSE IF Head(t) = "\\" /\ At(t, 2) = "n"
    THEN <<Newline>> \o unescapeNewlines(SubSeq(t, 3, Len(t)))
    ELSE <<Head(t)>> \o unescapeNewlines(Tail(t))

\* the last newline among the white space that follows position i, or 0
lastNewlineAfter(t, i) ==
    LET w == RunLen(t, i + 1, SpaceChars)
        At2 == {j \in (i + 1)..(i + w) : t[j] = Newline}
    IN  IF At2 = {} THEN 0 ELSE CHOOSE j \in At2 : \A m \in At2 : m <= j

\* text.replace(/\n\s*\n/g, '\n\n')
RECURSIVE collapseBlankLines(_, _)
collapseBlankLines(t, i) ==
    IF i > Len(t) THEN <<>>
    ELSE IF t[i] = Newline /\ lastNewlineAfter(t, i) > 0
    THEN <<Newline, Newline>> \o collapseBlankLines(t, lastNewlineAfter(t, i) + 1)
    ELSE <<t[i]>> \o collapseBlankLines(t, i + 1)

\* the characters the formatter puts before a match
Rupee == "RUPEE SIGN"
Calendar == "CALENDAR"

\* formatExtractedText (lines 499-516): the text after each step
formatStages(text) ==
    LET t0 == trim(collapseBlankLines(unescapeNewlines(text), 1))
        t1 == ReplaceAll("amount", t0, 1, <<" ", Rupee>>)
        t2 == ReplaceAll("slashdate", t1, 1, <<" ", Calendar, " ">>)
        t3 == ReplaceAll("number", t2, 1, <<" ", "#">>)
    IN  <<t0, t1, t2, t3>>

formatExtractedText(text) ==
    IF text = <<>>
    THEN [NoResult EXCEPT !.fn = "formatExtractedText",
                          !.stages = <<<<"N", "o", " ", "t", "e", "x", "t", " ", "a", "v", "a", "i", "l", "a", "b", "l", "e">>>>]
    ELSE [NoResult EXCEPT !.fn = "formatExtractedText", !.stages = formatStages(text)]

-----------------------------------------------------------------------------
(* The texts, and the text functions applied to them.                      *)

\* most fragments a text is made of
MaxFragments == 3

Fragments ==
    {<<"T", "o", "t", "a", "l", " ">>,
     <<"1", ",", "2", "3", "4", ".", "5", "6">>,
     <<"0", "5", "/", "0", "6", "/", "2", "0", "2", "4">>,
     <<"A", "B", "1", "2", "3">>,
     <<"1", "2", "3", "4", "5", "6", "7", "8", "9", "0">>,
     <<"\n">>,
     <<"N", "e", "t", ":", " ", "7">>,
     <<"1", "2", "3", "4", ".", "5", "6">>,
     <<"\\", "n">>,
     <<" ", "p", "a", "i", "d", " ", "o", "n", " ">>}

ExampleTexts ==
    {<<"T", "o", "t", "a", "l", " ", "1", ",", "2", "3", "4", ".", "5", "6", " ", "p", "a", "i", "d", " ", "o", "n", " ", "0", "5", "/", "0", "6", "/", "2", "0", "2", "4">>,
     <<"n", "o", " ", "n", "u", "m", "b", "e", "r", "s", " ", "o", "r", " ", "d", "a", "t", "e", "s", " ", "h", "e", "r", "e">>,
     <<"P", "a", "i", "d", " ", "5", " ", "M", "a", "y", " ", "2", "0", "2", "4">>,
     <<"T", "o", "t", "a", "l">>}

RECURSIVE concat(_)
concat(parts) == IF parts = <<>> THEN <<>> ELSE Head(parts) \o concat(Tail(parts))

Texts == ExampleTexts \cup {concat(parts) : parts \in SeqsUpTo(Fragments, MaxFragments)}

ExtInit ==
    /\ extText \in Texts
    /\ extOut = NoResult

ExtIdle ==
    /\ extText = <<>>
    /\ extOut = NoResult

\* parseToStructuredJson applied to the text
ApplyParseToStructuredJson ==
    /\ extOut' = parseToStructuredJson(extText)
    /\ UNCHANGED <<extText, mixVars, csvVars, invVars, rdVars, appVars, expVars>>
    /\ UNCHANGED <<dtVars, stvVars, srtVars>>

\* parseToSimpleFormat applied to the text
ApplyParseToSimpleFormat ==
    /\ extOut' = parseToSimpleFormat(extText)
    /\ UNCHANGED <<extText, mixVars, csvVars, invVars, rdVars, appVars, expVars>>
    /\ UNCHANGED <<dtVars, stvVars, srtVars>>

\* formatExtractedText applied to the text
ApplyFormatExtractedText ==
    /\ extOut' = formatExtractedText(extText)
    /\ UNCHANGED <<extText, mixVars, csvVars, invVars, rdVars, appVars, expVars>>
    /\ UNCHANGED <<dtVars, stvVars, srtVars>>

-----------------------------------------------------------------------------
(* ResultsDisplay.tsx: the file list, the details of a file, and the fetch *)
(* of the details (lines 414-421, 759-929, 1178-1193).                     *)

\* most files in the list
MaxFiles == 2
\* most requests the model follows
MaxRequests == 3

\* a file of the list: its id, whether it carries parsedContent, and the
\* view-mode flag set on the record itself ("none": the record has no flag)
FileLists ==
    UNION {[1..n -> [id : 1..MaxFiles, parsedContent : BOOLEAN, flags : {"none"}]] :
               n \in 0..MaxFiles}

NoFile ==
    [null |-> TRUE, id |-> 0, showFormattedJson |-> FALSE, showStructuredData |-> FALSE,
     showSimpleFormat |-> FALSE, showEnhancedText |-> FALSE]

\* a copy on which a tab's flag is set and 'Intelligent Document Parser' stays on
WithTabKeepingStructured(id, tab) ==
    [null |-> FALSE, id |-> id,
     showFormattedJson |-> (tab = "showFormattedJson"),
     showStructuredData |-> TRUE,
     showSimpleFormat |-> (tab = "showSimpleFormat"),
     showEnhancedText |-> (tab = "showEnhancedText")]

\* {...file, showFormattedJson, showStructuredData, showSimpleFormat, showEnhancedText}
WithTab(id, tab) ==
    [null |-> FALSE, id |-> id,
     showFormattedJson |-> (tab = "showFormattedJson"),
     showStructuredData |-> (tab = "showStructuredData"),
     showSimpleFormat |-> (tab = "showSimpleFormat"),
     showEnhancedText |-> (tab = "showEnhancedText")]

\* the flags written on the records of the list that have the id
attachFlagsInPlace(fs, id, tab) ==
    [i \in DOMAIN fs |-> IF fs[i].id = id THEN [fs[i] EXCEPT !.flags = tab] ELSE fs[i]]

\* the list after setSelectedFile({...file, flags}): the spread copies the
\* record, the flags go on the copy (lines 782-788, 901-925)
attachFlags(fs, id, tab) == fs

\* the buttons of the JSON tabs; "raw" sets the four flags to false
JsonTabs ==
    {"raw", "showFormattedJson", "showStructuredData", "showSimpleFormat", "showEnhancedText"}

\* the content under the JSON tabs (the conditional chain of lines 931-1039)
jsonContent(file) ==
    IF file.showFormattedJson THEN "FormattedJson"
    ELSE IF file.showStructuredData THEN "StructuredData"
    ELSE IF file.showSimpleFormat THEN "SimpleFormat"
    ELSE IF file.showEnhancedText THEN "EnhancedText"
    ELSE "RawJson"

\* the tab buttons that carry the class 'active' (lines 900-924)
activeTabs(file) ==
    {tab \in JsonTabs :
        IF tab = "raw"
        THEN /\ ~file.showFormattedJson /\ ~file.showStructuredData
             /\ ~file.showSimpleFormat /\ ~file.showEnhancedText
        ELSE file[tab]}

NoError == [null |-> TRUE, message |-> ""]

FailedToLoad == "Failed to load file details"

\* a failure that sets no message
swallowed(message) == NoError

\* setDetailsError(message) (lines 802 and 806)
failed(message) == [null |-> FALSE, message |-> message]

\* which of the four returns of the component is rendered (lines 813, 829, 855, 1065)
rdView ==
    IF loadingFileDetails THEN "Loading"
    ELSE IF ~detailsError.null /\ detailsError.message # "" THEN "Error"
    ELSE IF ~selectedFile.null THEN "Detail"
    ELSE "List"

\* buttons that stay on screen, enabled, while the details load
viewButtonsWhileLoading(view, disabled) == view \in {"List", "Loading"}

\* the view buttons can be clicked: the list is rendered (line 1065) and the
\* buttons are not disabled (lines 1182, 1189)
viewButtonsShown(view, disabled) == view = "List" /\ ~disabled

\* React applies the updates made after an await in one render ("automatic",
\* a root made with createRoot) or one render per update ("legacy")
Batchings == {"automatic", "legacy"}

RdInit ==
    /\ files \in FileLists
    /\ selectedFile = NoFile
    /\ loadingFileDetails = FALSE
    /\ detailsError = NoError
    /\ showStructuredView = "false"
    /\ pendingFetch = <<>>
    /\ requestCount = 0
    /\ rdEvent = "mount"
    /\ rdBatching \in Batchings
    /\ rdFinally = "none"
    /\ rdSupplied = files

RdIdle ==
    /\ files = <<>>
    /\ selectedFile = NoFile
    /\ loadingFileDetails = FALSE
    /\ detailsError = NoError
    /\ showStructuredView = "false"
    /\ pendingFetch = <<>>
    /\ requestCount = 0
    /\ rdEvent = "mount"
    /\ rdBatching = "automatic"
    /\ rdFinally = "none"
    /\ rdSupplied = <<>>

RdOthers ==
    <<dtVars, stvVars, srtVars, mixVars, csvVars, invVars, extVars, appVars, expVars>>

\* the sequence without its k-th element
RemoveAt(q, k) == SubSeq(q, 1, k - 1) \o SubSeq(q, k + 1, Len(q))

\* handleViewFileDetails (lines 774-810) from a button of the list, up to its
\* end for a file with parsedContent, up to the await of line 791 otherwise
ViewFileDetails ==
    \E i \in 1..Len(files) :
        /\ viewButtonsShown(rdView, loadingFileDetails)
        /\ rdFinally = "none"
        /\ detailsError' = NoError
        /\ IF files[i].parsedContent
           THEN /\ selectedFile' = WithTab(files[i].id, "showEnhancedText")
                /\ files' = attachFlags(files, files[i].id, "showEnhancedText")
                /\ loadingFileDetails' = FALSE
                /\ UNCHANGED <<pendingFetch, requestCount>>
           ELSE /\ requestCount < MaxRequests
                /\ pendingFetch' = Append(pendingFetch, files[i].id)
                /\ requestCount' = requestCount + 1
                /\ loadingFileDetails' = TRUE
                /\ UNCHANGED <<selectedFile, files>>
        /\ rdEvent' = "view"
        /\ UNCHANGED <<showStructuredView, rdBatching, rdFinally, rdSupplied>>
        /\ UNCHANGED RdOthers

\* what the continuation of line 791 does to the loading flag and where it
\* stands after its state update: with batching the finally block (line 808)
\* is part of the same render, without it the update is rendered first
Settled(outcome) ==
    /\ IF rdBatching = "automatic"
       THEN /\ loadingFileDetails' = FALSE
            /\ rdFinally' = "none"
            /\ rdEvent' = outcome
       ELSE /\ UNCHANGED loadingFileDetails
            /\ rdFinally' = outcome
            /\ rdEvent' = "settling"
    /\ UNCHANGED <<files, showStructuredView, requestCount, rdBatching, rdSupplied>>
    /\ UNCHANGED RdOthers

\* a request resolves with success and a file (lines 763-764, 792-800)
FetchResolves ==
    \E k \in 1..Len(pendingFetch), id \in 1..MaxFiles :
        /\ rdFinally = "none"
        /\ pendingFetch' = RemoveAt(pendingFetch, k)
        /\ selectedFile' = WithTab(id, "showStructuredData")
        /\ UNCHANGED detailsError
        /\ Settled("resolved")

\* a request resolves without success: fetchFileDetails returns null
\* (lines 763-766, 801-803)
FetchNonSuccess ==
    \E k \in 1..Len(pendingFetch) :
        /\ rdFinally = "none"
        /\ pendingFetch' = RemoveAt(pendingFetch, k)
        /\ detailsError' = failed(FailedToLoad)
        /\ UNCHANGED selectedFile
        /\ Settled("nonSuccess")

\* a request is rejected: fetchFileDetails throws (lines 767-770, 805-806)
FetchRejects ==
    \E k \in 1..Len(pendingFetch) :
        /\ rdFinally = "none"
        /\ pendingFetch' = RemoveAt(pendingFetch, k)
        /\ detailsError' = failed(FailedToLoad)
        /\ UNCHANGED selectedFile
        /\ Settled("rejected")

\* the finally block of line 808, rendered on its own
FinallyLoadingOff ==
    /\ rdFinally # "none"
    /\ loadingFileDetails' = FALSE
    /\ rdEvent' = rdFinally
    /\ rdFinally' = "none"
    /\ UNCHANGED <<files, selectedFile, detailsError, showStructuredView, pendingFetch,
                   requestCount, rdBatching, rdSupplied>>
    /\ UNCHANGED RdOthers

\* 'Back to Results' of the error state (lines 838-847)
DismissError ==
    /\ rdView = "Error"
    /\ detailsError' = NoError
    /\ selectedFile' = NoFile
    /\ rdEvent' = "dismiss"
    /\ UNCHANGED <<files, loadingFileDetails, showStructuredView, pendingFetch,
                   requestCount, rdBatching, rdFinally, rdSupplied>>
    /\ UNCHANGED RdOthers

\* 'Back to Results' of the details (lines 859-868)
BackToResults ==
    /\ rdView = "Detail"
    /\ selectedFile' = NoFile
    /\ detailsError' = NoError
    /\ showStructuredView' = "false"
    /\ rdEvent' = "back"
    /\ UNCHANGED <<files, loadingFileDetails, pendingFetch, requestCount,
                   rdBatching, rdFinally, rdSupplied>>
    /\ UNCHANGED RdOthers

\* the view toggle of the details (lines 874-886)
SetShowStructuredView ==
    \E view \in {"false", "json"} :
        /\ rdView = "Detail"
        /\ showStructuredView' = view
        /\ rdEvent' = "toggle"
        /\ UNCHANGED <<files, selectedFile, loadingFileDetails, detailsError,
                       pendingFetch, requestCount, rdBatching, rdFinally, rdSupplied>>
        /\ UNCHANGED RdOthers

\* a button of the JSON tabs (lines 898-929)
ClickJsonTab ==
    \E tab \in JsonTabs :
        /\ rdView = "Detail"
        /\ showStructuredView = "json"
        /\ selectedFile' = WithTab(selectedFile.id, tab)
        /\ files' = attachFlags(files, selectedFile.id, tab)
        /\ rdEvent' = "tab"
        /\ UNCHANGED <<loadingFileDetails, detailsError, showStructuredView,
                       pendingFetch, requestCount, rdBatching, rdFinally, rdSupplied>>
        /\ UNCHANGED RdOthers

-----------------------------------------------------------------------------
(* App.tsx: the list of processed files, uploads, refreshes, and the       *)
(* status messages with their timers (lines 10-130).                       *)

\* most uploads and most refreshes from a Refresh button the model follows
MaxUploads == 2
MaxRefreshes == 1

\* the id of a file the server holds before any upload; upload k returns file k
OldFile == 100

Tabs == {"upload", "results", "dashboard"}

NoUpload == [state |-> "none", file |-> 0]

NoEvent(type) == [type |-> type, file |-> 0, list |-> <<>>, saw |-> {}]

\* a list with the new file after the files it held
afterUploadAppended(prev, newFile) == prev \o <<newFile>>

\* setProcessedFiles(prev => [newFile, ...prev]) (line 94)
afterUpload(prev, newFile) == <<newFile>> \o prev

\* a clearTimeout that clears nothing
clearTimeoutSkipped(pending, ref) == pending

\* clearTimeout(ref.current) (lines 51-52, 122-123)
clearTimeout(pending, ref) == {t \in pending : t.id # ref}

\* the id setTimeout returns: one no timer had before
newTimerId == uploadCount

InList(file, list) == \E i \in 1..Len(list) : list[i] = file

\* after the mount: useEffect has called loadExistingFiles (lines 22-24)
AppInit ==
    /\ processedFiles = <<>>
    /\ loading = FALSE
    /\ error = 0
    /\ success = 0
    /\ appTab = "upload"
    /\ errorTimeoutRef = 0
    /\ successTimeoutRef = 0
    /\ timers = {}
    /\ uploadReq = NoUpload
    /\ refreshReqs = <<[handled |-> FALSE, list |-> <<>>, saw |-> {}]>>
    /\ serverFiles \in {<<>>, <<OldFile>>}
    /\ uploadCount = 0
    /\ refreshCount = 0
    /\ appAdded = {}
    /\ appEvent = NoEvent("mount")

AppIdle ==
    /\ processedFiles = <<>>
    /\ loading = FALSE
    /\ error = 0
    /\ success = 0
    /\ appTab = "upload"
    /\ errorTimeoutRef = 0
    /\ successTimeoutRef = 0
    /\ timers = {}
    /\ uploadReq = NoUpload
    /\ refreshReqs = <<>>
    /\ serverFiles = <<>>
    /\ uploadCount = 0
    /\ refreshCount = 0
    /\ appAdded = {}
    /\ appEvent = NoEvent("mount")

AppOthers ==
    <<dtVars, stvVars, srtVars, mixVars, csvVars, invVars, extVars, rdVars, expVars>>

\* handleFileUpload up to its await (lines 45-58), from the upload button of
\* FileUpload, which is disabled while loading (FileUpload.tsx line 375)
StartUpload ==
    /\ appTab = "upload"
    /\ ~loading
    /\ uploadCount < MaxUploads
    /\ loading' = TRUE
    /\ error' = 0
    /\ success' = 0
    /\ timers' = clearTimeout(clearTimeout(timers, errorTimeoutRef), successTimeoutRef)
    /\ uploadCount' = uploadCount + 1
    /\ uploadReq' = [state |-> "sent", file |-> uploadCount + 1]
    /\ appEvent' = NoEvent("startUpload")
    /\ UNCHANGED <<processedFiles, appTab, errorTimeoutRef, successTimeoutRef,
                   refreshReqs, serverFiles, refreshCount, appAdded>>
    /\ UNCHANGED AppOthers

\* the server processes the upload and keeps the file
ServerStoresUpload ==
    /\ uploadReq.state = "sent"
    /\ uploadReq' = [uploadReq EXCEPT !.state = "stored"]
    /\ serverFiles' = <<uploadReq.file>> \o serverFiles
    /\ appEvent' = NoEvent("serverStores")
    /\ UNCHANGED <<processedFiles, loading, error, success, appTab, errorTimeoutRef,
                   successTimeoutRef, timers, refreshReqs, uploadCount, refreshCount,
                   appAdded>>
    /\ UNCHANGED AppOthers

\* the post resolves with success (lines 64-102, 113)
UploadResolves ==
    /\ uploadReq.state = "stored"
    /\ uploadReq' = NoUpload
    /\ processedFiles' = afterUpload(processedFiles, uploadReq.file)
    /\ appAdded' = appAdded \cup {uploadReq.file}
    /\ success' = uploadReq.file
    /\ successTimeoutRef' = newTimerId
    /\ timers' = timers \cup {[id |-> newTimerId, kind |-> "success", for |-> uploadReq.file]}
    /\ loading' = FALSE
    /\ appEvent' = [NoEvent("uploadResolves") EXCEPT !.file = uploadReq.file]
    /\ UNCHANGED <<error, appTab, errorTimeoutRef, refreshReqs, serverFiles,
                   uploadCount, refreshCount>>
    /\ UNCHANGED AppOthers

\* the post resolves without success (lines 64, 113)
UploadNonSuccess ==
    /\ uploadReq.state = "sent"
    /\ uploadReq' = NoUpload
    /\ loading' = FALSE
    /\ appEvent' = NoEvent("uploadNonSuccess")
    /\ UNCHANGED <<processedFiles, error, success, appTab, errorTimeoutRef,
                   successTimeoutRef, timers, refreshReqs, serverFiles, uploadCount,
                   refreshCount, appAdded>>
    /\ UNCHANGED AppOthers

\* the post is rejected, whether or not the server kept the file (lines 103-113)
UploadRejects ==
    /\ uploadReq.state \in {"sent", "stored"}
    /\ uploadReq' = NoUpload
    /\ error' = uploadReq.file
    /\ errorTimeoutRef' = newTimerId
    /\ timers' = timers \cup {[id |-> newTimerId, kind |-> "error", for |-> uploadReq.file]}
    /\ loading' = FALSE
    /\ appEvent' = NoEvent("uploadRejects")
    /\ UNCHANGED <<processedFiles, success, appTab, successTimeoutRef, refreshReqs,
                   serverFiles, uploadCount, refreshCount, appAdded>>
    /\ UNCHANGED AppOthers

\* loadExistingFiles up to its await (lines 34-36), from a Refresh button of
\* the results or of the dashboard (lines 176, 183)
StartRefresh ==
    /\ appTab \in {"results", "dashboard"}
    /\ refreshCount < MaxRefreshes
    /\ refreshCount' = refreshCount + 1
    /\ refreshReqs' = Append(refreshReqs, [handled |-> FALSE, list |-> <<>>, saw |-> appAdded])
    /\ appEvent' = NoEvent("startRefresh")
    /\ UNCHANGED <<processedFiles, loading, error, success, appTab, errorTimeoutRef,
                   successTimeoutRef, timers, uploadReq, serverFiles, uploadCount,
                   appAdded>>
    /\ UNCHANGED AppOthers

\* the server answers a get with the list it holds then
ServerHandlesRefresh ==
    \E k \in 1..Len(refreshReqs) :
        /\ ~refreshReqs[k].handled
        /\ refreshReqs' = [refreshReqs EXCEPT ![k].handled = TRUE, ![k].list = serverFiles]
        /\ appEvent' = NoEvent("serverHandles")
        /\ UNCHANGED <<processedFiles, loading, error, success, appTab, errorTimeoutRef,
                       successTimeoutRef, timers, uploadReq, serverFiles, uploadCount,
                       refreshCount, appAdded>>
        /\ UNCHANGED AppOthers

\* a get resolves with success (lines 37-38)
RefreshResolves ==
    \E k \in 1..Len(refreshReqs) :
        /\ refreshReqs[k].handled
        /\ refreshReqs' = RemoveAt(refreshReqs, k)
        /\ processedFiles' = refreshReqs[k].list
        /\ appEvent' = [NoEvent("refreshResolves") EXCEPT
                            !.list = refreshReqs[k].list, !.saw = refreshReqs[k].saw]
        /\ UNCHANGED <<loading, error, success, appTab, errorTimeoutRef,
                       successTimeoutRef, timers, uploadReq, serverFiles, uploadCount,
                       refreshCount, appAdded>>
        /\ UNCHANGED AppOthers

\* a get resolves without success, or is rejected (lines 37, 40-42)
RefreshFails ==
    \E k \in 1..Len(refreshReqs), type \in {"refreshNonSuccess", "refreshRejects"} :
        /\ refreshReqs' = RemoveAt(refreshReqs, k)
        /\ appEvent' = NoEvent(type)
        /\ UNCHANGED <<processedFiles, loading, error, success, appTab, errorTimeoutRef,
                       successTimeoutRef, timers, uploadReq, serverFiles, uploadCount,
                       refreshCount, appAdded>>
        /\ UNCHANGED AppOthers

\* a timer fires: setError(null) or setSuccess(null) (lines 99-101, 109-111)
TimerFires ==
    \E t \in timers :
        /\ timers' = timers \ {t}
        /\ error' = IF t.kind = "error" THEN 0 ELSE error
        /\ success' = IF t.kind = "success" THEN 0 ELSE success
        /\ appEvent' = [NoEvent("timerFires") EXCEPT !.file = t.for]
        /\ UNCHANGED <<processedFiles, loading, appTab, errorTimeoutRef,
                       successTimeoutRef, uploadReq, refreshReqs, serverFiles,
                       uploadCount, refreshCount, appAdded>>
        /\ UNCHANGED AppOthers

\* clearMessages (lines 117-124), from FileUpload (onClearMessages)
ClearMessages ==
    /\ appTab = "upload"
    /\ error' = 0
    /\ success' = 0
    /\ timers' = clearTimeout(clearTimeout(timers, errorTimeoutRef), successTimeoutRef)
    /\ appEvent' = NoEvent("clearMessages")
    /\ UNCHANGED <<processedFiles, loading, appTab, errorTimeoutRef, successTimeoutRef,
                   uploadReq, refreshReqs, serverFiles, uploadCount, refreshCount,
                   appAdded>>
    /\ UNCHANGED AppOthers

\* handleTabChange (lines 126-130)
TabChange ==
    \E tabId \in Tabs :
        /\ error' = 0
        /\ success' = 0
        /\ timers' = clearTimeout(clearTimeout(timers, errorTimeoutRef), successTimeoutRef)
        /\ appTab' = tabId
        /\ appEvent' = NoEvent("tabChange")
        /\ UNCHANGED <<processedFiles, loading, errorTimeoutRef, successTimeoutRef,
                       uploadReq, refreshReqs, serverFiles, uploadCount, refreshCount,
                       appAdded>>
        /\ UNCHANGED AppOthers

-----------------------------------------------------------------------------
(* The exports of DataTable.tsx (exportExcelToPDF, exportSheetData,        *)
(* createTableInPDF), InvoiceTable.tsx (exportInvoiceTableToPDF,           *)
(* exportInvoiceTableToExcel) and StructuredTableView (exportToCSV): what  *)
(* each lays out, and what becomes of an exception thrown while it          *)
(* generates.  A header is its position in the headers array, a row its     *)
(* position in the data array; page breaks move the drawing down the page   *)
(* and change neither the columns nor the rows drawn.                       *)

MaxSheets == 2
MaxSheetRows == 101
MaxPdfCols == 9

\* Math.min(headers.length, 8) (DataTable.tsx, line 674)
ColumnCap == 8
\* Math.min(rows.length, 25) (DataTable.tsx, line 707)
RowCap == 25
\* exportSheetData (DataTable.tsx, line 550)
maxRowsPerTable == 30
\* sheetData.data.length > 100 (DataTable.tsx, line 452)
DisplayedRows == 100

iota(n) == [i \in 1..n |-> i]

slice(s, from, to) == SubSeq(s, from + 1, Min(to, Len(s)))

SheetShapes ==
    [rows : {0, 1, MaxSheetRows}, cols : {0, ColumnCap, MaxPdfCols}]

SheetLists == UNION {[1..n -> SheetShapes] : n \in 1..MaxSheets}

InvoiceShapes == [rows : {1}, cols : {1, MaxPdfCols}]

ExViews ==
    [selectedTable : 0..1, sortDirection : {"asc"}, activeTab : {"overview", "tables"}]

NoTable == [drawn |-> <<>>, rows |-> <<>>, moreRows |-> 0, footnote |-> <<>>]

maxColumnsUncapped(headers) == Len(headers)

maxColumns(headers) == Min(Len(headers), ColumnCap)

maxRows(rows) == Min(Len(rows), RowCap)

\* createTableInPDF (DataTable.tsx, lines 661-754): the header cells, the data
\* rows, the count of the "more rows" note and the names of the footnote
createTableInPDF(headers, rows) ==
    IF Len(headers) = 0 \/ Len(rows) = 0
    THEN NoTable
    ELSE [drawn    |-> slice(headers, 0, maxColumns(headers)),
          rows     |-> slice(rows, 0, maxRows(rows)),
          moreRows |-> Len(rows) - maxRows(rows),
          footnote |-> IF Len(headers) > maxColumns(headers)
                       THEN slice(headers, maxColumns(headers), Len(headers))
                       ELSE <<>>]

\* exportInvoiceTableToPDF (InvoiceTable.tsx, lines 118-205): autoTable lays out
\* head and body whole; the basic layout writes every header, 25 apart, and
\* the first 20 rows
invoiceTableInPDF(headers, rows, autoTable) ==
    [drawn    |-> headers,
     rows     |-> IF autoTable THEN rows ELSE slice(rows, 0, 20),
     moreRows |-> 0,
     footnote |-> <<>>]

\* the tables exportExcelToPDF draws for the sheets from the k-th on
RECURSIVE sheetTables(_, _)
sheetTables(sheets, k) ==
    IF k > Len(sheets)
    THEN <<>>
    ELSE LET sheetData == sheets[k]
             drawnHere ==
                 IF sheetData.rows > 0
                 THEN LET t == createTableInPDF(iota(sheetData.cols), iota(sheetData.rows))
                      IN  IF t = NoTable
                          THEN <<>>
                          ELSE <<[by |-> "createTableInPDF", sheet |-> k, table |-> t]>>
                 ELSE <<>>
         IN  drawnHere \o sheetTables(sheets, k + 1)

NoExport == [action |-> "none", sheet |-> 0, thrown |-> FALSE, outcome |-> "none", n |-> 0]

ExEvent(action, sheet, thrown, outcome) ==
    [action |-> action, sheet |-> sheet, thrown |-> thrown, outcome |-> outcome,
     n |-> 1 - exEvent.n]

\* an exception a handler does not catch leaves it and reaches no alert
uncaught == "uncaught"

\* catch (error) { console.error(...); alert(...) }
alerted == "alerted"

NotExporting == [at |-> "idle", sheet |-> 0]

ExpInit ==
    /\ exSheets \in SheetLists
    /\ exInvoice \in InvoiceShapes
    /\ exCsvRows \in 0..1
    /\ autoTableAvailable \in BOOLEAN
    /\ exView \in {[selectedTable |-> 0, sortDirection |-> "asc", activeTab |-> "overview"]}
    /\ exPc = NotExporting
    /\ processedRows = 0
    /\ exDoc = <<>>
    /\ exEvent = NoExport

ExpIdle ==
    /\ exSheets = <<>>
    /\ exInvoice = [rows |-> 1, cols |-> 1]
    /\ exCsvRows = 0
    /\ autoTableAvailable = FALSE
    /\ exView = [selectedTable |-> 0, sortDirection |-> "asc", activeTab |-> "overview"]
    /\ exPc = NotExporting
    /\ processedRows = 0
    /\ exDoc = <<>>
    /\ exEvent = NoExport

ExpOthers ==
    <<dtVars, stvVars, srtVars, mixVars, csvVars, invVars, extVars, rdVars, appVars>>

\* the table picker, the sort and the tabs of the views
ChangeView ==
    /\ exPc = NotExporting
    /\ \E v \in ExViews :
          /\ v # exView
          /\ exView' = v
    /\ UNCHANGED <<exSheets, exInvoice, exCsvRows, autoTableAvailable, exPc,
                   processedRows, exDoc, exEvent>>
    /\ UNCHANGED ExpOthers

\* exportToCSV (StructuredTableView, lines 131-156; button, line 216)
CsvExportClicked ==
    /\ exPc = NotExporting
    /\ \E thrown \in BOOLEAN :
          /\ thrown => exCsvRows > 0
          /\ exEvent' = ExEvent("exportToCSV", 0, thrown,
                                IF exCsvRows = 0 THEN "returned"
                                ELSE IF thrown THEN uncaught ELSE "saved")
    /\ exDoc' = <<>>
    /\ UNCHANGED <<exSheets, exInvoice, exCsvRows, autoTableAvailable, exView, exPc,
                   processedRows>>
    /\ UNCHANGED ExpOthers

\* exportInvoiceTableToPDF (InvoiceTable.tsx, lines 85-215; button, line 356)
InvoicePdfExportClicked ==
    /\ exPc = NotExporting
    /\ \E thrown \in BOOLEAN :
          /\ exEvent' = ExEvent("exportInvoiceTableToPDF", 0, thrown,
                                IF thrown THEN alerted ELSE "saved")
          /\ exDoc' = IF thrown
                      THEN <<>>
                      ELSE <<[by |-> "exportInvoiceTableToPDF", sheet |-> 0,
                              table |-> invoiceTableInPDF(iota(exInvoice.cols),
                                                          iota(exInvoice.rows),
                                                          autoTableAvailable)]>>
    /\ UNCHANGED <<exSheets, exInvoice, exCsvRows, autoTableAvailable, exView, exPc,
                   processedRows>>
    /\ UNCHANGED ExpOthers

\* exportInvoiceTableToExcel (InvoiceTable.tsx, lines 217-249; button, line 362)
InvoiceExcelExportClicked ==
    /\ exPc = NotExporting
    /\ \E thrown \in BOOLEAN :
          exEvent' = ExEvent("exportInvoiceTableToExcel", 0, thrown,
                             IF thrown THEN alerted ELSE "saved")
    /\ exDoc' = <<>>
    /\ UNCHANGED <<exSheets, exInvoice, exCsvRows, autoTableAvailable, exView, exPc,
                   processedRows>>
    /\ UNCHANGED ExpOthers

\* exportExcelToPDF (DataTable.tsx, lines 756-827; button, line 329)
ExportExcelToPDF ==
    /\ exPc = NotExporting
    /\ \E thrown \in BOOLEAN :
          /\ exEvent' = ExEvent("exportExcelToPDF", 0, thrown,
                                IF thrown THEN uncaught ELSE "saved")
          /\ exDoc' = IF thrown THEN <<>> ELSE sheetTables(exSheets, 1)
    /\ UNCHANGED <<exSheets, exInvoice, exCsvRows, autoTableAvailable, exView, exPc,
                   processedRows>>
    /\ UNCHANGED ExpOthers

\* exportSheetData up to its loop (DataTable.tsx, lines 527-551); the button
\* is shown under a sheet of more than 100 rows (lines 452-463)
ExportSheetData ==
    /\ exPc = NotExporting
    /\ \E s \in 1..Len(exSheets), thrown \in BOOLEAN :
          /\ exSheets[s].rows > DisplayedRows
          /\ exPc' = IF thrown THEN NotExporting ELSE [at |-> "loop", sheet |-> s]
          /\ exEvent' = ExEvent("exportSheetData", s, thrown,
                                IF thrown THEN uncaught ELSE "running")
    /\ processedRows' = 0
    /\ exDoc' = <<>>
    /\ UNCHANGED <<exSheets, exInvoice, exCsvRows, autoTableAvailable, exView>>
    /\ UNCHANGED ExpOthers

\* one turn of the loop of exportSheetData (lines 554-573)
ExportSheetDataChunk ==
    /\ exPc.at = "loop"
    /\ LET sheetData == exSheets[exPc.sheet]
           totalRows == sheetData.rows
           remainingRows == totalRows - processedRows
           rowsInThisTable == Min(maxRowsPerTable, remainingRows)
           currentData == slice(iota(totalRows), processedRows,
                                processedRows + rowsInThisTable)
           t == createTableInPDF(iota(sheetData.cols), currentData)
       IN  /\ processedRows < totalRows
           /\ \E thrown \in BOOLEAN :
                 /\ exPc' = IF thrown THEN NotExporting ELSE exPc
                 /\ exEvent' = ExEvent("exportSheetData", exPc.sheet, thrown,
                                       IF thrown THEN uncaught ELSE "running")
                 /\ exDoc' = IF thrown \/ t = NoTable
                             THEN exDoc
                             ELSE Append(exDoc, [by |-> "createTableInPDF",
                                                 sheet |-> exPc.sheet, table |-> t])
                 /\ processedRows' = IF thrown THEN processedRows
                                     ELSE processedRows + rowsInThisTable
    /\ UNCHANGED <<exSheets, exInvoice, exCsvRows, autoTableAvailable, exView>>
    /\ UNCHANGED ExpOthers

\* exportSheetData after its loop: summary, footers, doc.save (lines 575-610)
ExportSheetDataSave ==
    /\ exPc.at = "loop"
    /\ processedRows >= exSheets[exPc.sheet].rows
    /\ \E thrown \in BOOLEAN :
          exEvent' = ExEvent("exportSheetData", exPc.sheet, thrown,
                             IF thrown THEN uncaught ELSE "saved")
    /\ exPc' = NotExporting
    /\ UNCHANGED <<exSheets, exInvoice, exCsvRows, autoTableAvailable, exView,
                   processedRows, exDoc>>
    /\ UNCHANGED ExpOthers

-----------------------------------------------------------------------------
(* Specifications.                                                         *)

AuxIdle == MixIdle /\ CsvIdle /\ InvIdle /\ ExtIdle /\ RdIdle /\ AppIdle /\ ExpIdle

Init == StvInit /\ DtIdle /\ SrtIdle /\ AuxIdle

Next == SetSearchTerm \/ SelectTable \/ ClickHeader \/ ToggleValues

\* StructuredTableView
Spec == Init /\ [][Next]_vars

DispatchInit == DtInit /\ StvIdle /\ SrtIdle /\ AuxIdle

DispatchNext == SetActiveTab

\* DataTable
SpecDispatch == DispatchInit /\ [][DispatchNext]_vars

SortInit == SrtInit /\ DtIdle /\ StvIdle /\ AuxIdle

SortNext == SortAscending \/ SortDescending

\* the row sort alone
SpecSort == SortInit /\ [][SortNext]_vars

CsvSpecInit ==
    CsvInit /\ DtIdle /\ StvIdle /\ SrtIdle /\ MixIdle /\ ExtIdle /\ RdIdle /\ AppIdle
    /\ ExpIdle

CsvNext == ExportToCSV \/ ExportInvoiceTable

\* the CSV exports
SpecCsv == CsvSpecInit /\ [][CsvNext]_vars

MixedInit ==
    MixInit /\ DtIdle /\ StvIdle /\ CsvIdle /\ InvIdle /\ ExtIdle /\ RdIdle /\ AppIdle
    /\ ExpIdle

MixedNext == SortMixed \/ SortAgain

\* the row sort on columns of mixed values
SpecSortMixed == MixedInit /\ [][MixedNext]_vars

ExtractInit ==
    ExtInit /\ DtIdle /\ StvIdle /\ SrtIdle /\ MixIdle /\ CsvIdle /\ InvIdle /\ RdIdle /\ AppIdle
    /\ ExpIdle

ExtractNext ==
    \/ ApplyParseToStructuredJson
    \/ ApplyParseToSimpleFormat
    \/ ApplyFormatExtractedText

\* the text functions of ResultsDisplay
SpecExtract == ExtractInit /\ [][ExtractNext]_vars

ResultsInit ==
    RdInit /\ DtIdle /\ StvIdle /\ SrtIdle /\ MixIdle /\ CsvIdle /\ InvIdle /\ ExtIdle
    /\ AppIdle /\ ExpIdle

ResultsNext ==
    \/ ViewFileDetails
    \/ FetchResolves
    \/ FetchNonSuccess
    \/ FetchRejects
    \/ FinallyLoadingOff
    \/ DismissError
    \/ BackToResults
    \/ SetShowStructuredView
    \/ ClickJsonTab

\* ResultsDisplay
SpecResults == ResultsInit /\ [][ResultsNext]_vars

\* a continuation runs once its request has settled, and runs to its end; that
\* every request settles is what the server and the network are taken to do
ResultsFairness ==
    /\ WF_vars(FetchResolves \/ FetchNonSuccess \/ FetchRejects)
    /\ WF_vars(FinallyLoadingOff)

\* ResultsDisplay with requests that settle
SpecResultsLive == SpecResults /\ ResultsFairness

AppSpecInit ==
    AppInit /\ DtIdle /\ StvIdle /\ SrtIdle /\ MixIdle /\ CsvIdle /\ InvIdle /\ ExtIdle
    /\ RdIdle /\ ExpIdle

AppNext ==
    \/ StartUpload
    \/ ServerStoresUpload
    \/ UploadResolves
    \/ UploadNonSuccess
    \/ UploadRejects
    \/ StartRefresh
    \/ ServerHandlesRefresh
    \/ RefreshResolves
    \/ RefreshFails
    \/ TimerFires
    \/ ClearMessages
    \/ TabChange

\* App
SpecApp == AppSpecInit /\ [][AppNext]_vars

InvoiceInit ==
    InvInit /\ DtIdle /\ StvIdle /\ SrtIdle /\ MixIdle /\ CsvIdle /\ ExtIdle /\ RdIdle /\ AppIdle
    /\ ExpIdle

InvoiceNext == SetSelectedTable \/ ExportInvoiceTable

\* InvoiceTable
SpecInvoice == InvoiceInit /\ [][InvoiceNext]_vars

ExportInit ==
    ExpInit /\ DtIdle /\ StvIdle /\ SrtIdle /\ MixIdle /\ CsvIdle /\ InvIdle /\ ExtIdle
    /\ RdIdle /\ AppIdle

ExportNext ==
    \/ ChangeView
    \/ CsvExportClicked
    \/ InvoicePdfExportClicked
    \/ InvoiceExcelExportClicked
    \/ ExportExcelToPDF
    \/ ExportSheetData
    \/ ExportSheetDataChunk
    \/ ExportSheetDataSave

\* the exports
SpecExport == ExportInit /\ [][ExportNext]_vars

-----------------------------------------------------------------------------
(* The decision order the specification gives for the shape of a payload   *)
(* (section 4.1, rules 1 to 8), as the claims about the dispatch state it.  *)

Rule1(d) == d.invoiceNo /\ d.items /\ d.grandTotal
Rule2(d) == d.tables # "none" \/ d.type = "invoice"
Rule3(d) == d.dataField = "array" /\ d.metadata = "std"
Rule4(d) ==
    /\ d.kind = "array" /\ d.arrLen > 0 /\ ~d.firstNull
    /\ \E k \in InvoiceFields : d.first[k] # "absent"
Rule5(d) == d.type = "spreadsheet"
Rule6(d) == d.type = "ocr"
Rule7(d) == d.kind \in {"array", "object"}

FirstMatch(d) ==
    IF Rule1(d) THEN "InvoiceDocument"
    ELSE IF Rule2(d) THEN "TableList"
    ELSE IF Rule3(d) THEN "KeyedTableMap"
    ELSE IF Rule4(d) THEN "RecordArray"
    ELSE IF Rule5(d) THEN "SpreadsheetBundle"
    ELSE IF Rule6(d) THEN "OcrTextBundle"
    ELSE IF Rule7(d) THEN "TableList"
    ELSE "Unrecognized"

\* how many of the shape rules 2..6 a payload matches
ShapeMatches(d) ==
    Cardinality({i \in 2..6 :
        \/ i = 2 /\ Rule2(d)
        \/ i = 3 /\ Rule3(d)
        \/ i = 4 /\ Rule4(d)
        \/ i = 5 /\ Rule5(d)
        \/ i = 6 /\ Rule6(d)})

\* the shape tag a view of DataTable stands for
TagOfView(view) ==
    CASE view = "TableList" -> "TableList"
      [] view = "KeyedTableMap" -> "KeyedTableMap"
      [] view = "RecordArray" -> "RecordArray"
      [] view = "Spreadsheet" -> "SpreadsheetBundle"
      [] view = "OcrText" -> "OcrTextBundle"
      [] view = "PdfText" -> "PdfText"
      [] OTHER -> "Unrecognized"

-----------------------------------------------------------------------------
(* Claims about the shape dispatch (specification SpecDispatch).           *)

\* C1: a payload that matches several shape rules gets the tag of the
\* lowest-numbered rule it matches, whatever the file's fileType.  Stated for
\* the payloads that do not match rule 1 and whose render does not throw.
C1_FirstMatchWins ==
    (ShapeMatches(dtData) >= 2 /\ ~Rule1(dtData) /\ dtView # "Throw")
        => TagOfView(dtView) = FirstMatch(dtData)

\* C2: a payload with invoiceNo, an items array and grandTotal is classified
\* InvoiceDocument, whatever other fields it has.
C2_InvoiceDocument ==
    Rule1(dtData) => TagOfView(dtView) = "InvoiceDocument"

\* C3: for an image file, a non-empty array whose first element is an object
\* is shown as RecordArray exactly when that element has one of the invoice
\* keys, whatever value the key holds (0 and '' included).
C3_RecordArrayByKey ==
    (dtFileType = "image" /\ dtData.kind = "array" /\ dtData.arrLen > 0
        /\ ~dtData.firstNull)
        => (dtView = "RecordArray" <=> Rule4(dtData))

\* C4: classifying and rendering a payload never throws, also when a payload
\* typed 'ocr' or 'spreadsheet' lacks content, statistics, sheets or metadata.
C4_RenderTotal == dtView # "Throw"

\* C6: a non-null payload that matches none of the shapes of rules 1..6 ends
\* in an explicit view, never in a blank render.
C6_ExplicitUnsupported ==
    (dtData.kind # "null" /\ ~Rule1(dtData) /\ ShapeMatches(dtData) = 0)
        => dtView \notin {"Blank", "Throw"}

-----------------------------------------------------------------------------
(* Claims about StructuredTableView (specification Spec).                  *)

\* texts that are no JSON whatever parser reads them
KnownInvalidTexts ==
    {<<"[">>, <<"]">>, <<",">>, <<"{">>, <<"0", "1">>, <<"[", "1">>,
     <<"[", ",", "]">>, <<"[", "1", ",">>, <<"1", "]">>, <<"{", "]">>}

\* C5: a payload that is a string and no valid JSON ends in the 'no
\* structured data' view, in every state the component reaches with it, and
\* the render does not throw.
C5_InvalidJsonNoData ==
    /\ (supplied.k = "str" /\ ~JSONParse(supplied.s).ok)
           => stvView = "NoStructuredData"
    /\ (supplied.k = "str" /\ supplied.s \in KnownInvalidTexts)
           => stvView = "NoStructuredData"

C5_Witness ==
    /\ supplied = JStr(<<"[", "1", ",">>)
    /\ ~JSONParse(supplied.s).ok
    /\ stvView = "NoStructuredData"

\* C8: after header clicks the sort column is the header clicked last, and
\* the direction is 'asc' when that header has been clicked an odd number of
\* times in a row, 'desc' when an even number.
C8_SortFollowsClicks ==
    lastClicked # NoClick =>
        /\ sortColumn = lastClicked
        /\ sortDirection = (IF clickParity = 1 THEN "asc" ELSE "desc")

\* C9: the payload the component was given is never changed by sorting,
\* searching or selecting, and while no sort column is set the rows shown are
\* the rows of the selected table in the order the payload has them.
C9_SortViewOnly ==
    /\ data = supplied
    /\ (sortColumn = <<>> /\ stvView = "Table")
           => stvRows = tableDataOf(parsedData(supplied), selectedTable)

C9_Witness ==
    /\ sortColumn # <<>>
    /\ stvView = "Table"
    /\ stvRows # tableDataOf(parsedData(supplied), selectedTable)
    /\ data = supplied

\* two characters that are the same letter, whatever their case
SameLetter(x, y) ==
    x = y \/ \E i \in 1..Len(Upper) : {x, y} = {Upper[i], Lower[i]}

\* term occurs in name as a contiguous run, case ignored
ContainsIgnoringCase(name, term) ==
    \E off \in 0..(Len(name) - Len(term)) :
        \A j \in 1..Len(term) : SameLetter(name[off + j], term[j])

\* C10: the picker lists exactly the table names that contain the search
\* term, case ignored, and a change of the search term leaves the selected
\* table and the rows shown as they were.
C10_SearchOnlyFilters ==
    /\ stvFiltered = SelectSeq(stvTables, LAMBDA name : ContainsIgnoringCase(name, searchTerm))
    /\ lastEvent = "search" => Shown = prevShown

C10_Witness ==
    /\ lastEvent = "search"
    /\ stvView = "Table"
    /\ searchTerm # <<>>
    /\ ~ContainsIgnoringCase(selectedTable, searchTerm)
    /\ Len(stvFiltered) = 1
    /\ Len(stvTables) = 2

-----------------------------------------------------------------------------
(* Claims about the row sort (specification SpecSort).                     *)

CellOf(row) == Get(row, ColV)

RECURSIVE CellsOf(_)
CellsOf(rows) ==
    IF rows = <<>> THEN <<>> ELSE <<CellOf(Head(rows))>> \o CellsOf(Tail(rows))

\* the rows of s are the rows of t in some order (ids make the rows distinct)
SameRows(s, t) ==
    /\ Len(s) = Len(t)
    /\ {s[i] : i \in 1..Len(s)} = {t[i] : i \in 1..Len(t)}

ExampleCells == <<JNum(3), JNull, JNum(1), JNull, JNum(2)>>

\* C7: sorted by a column in either direction, the rows whose cell is null
\* or undefined come after all others, the other rows are in ascending order
\* of the cell ('asc') or descending order ('desc'), no row is lost or added;
\* [3, null, 1, null, 2] gives [1, 2, 3, null, null] and [3, 2, 1, null, null].
C7_NullsLast ==
    srtDir # "none" =>
        /\ SameRows(srtOut, srtIn)
        /\ \A i, j \in 1..Len(srtOut) :
               (i < j /\ IsNullish(CellOf(srtOut[i]))) => IsNullish(CellOf(srtOut[j]))
        /\ \A i, j \in 1..Len(srtOut) :
               (i < j /\ ~IsNullish(CellOf(srtOut[i])) /\ ~IsNullish(CellOf(srtOut[j])))
                   => IF srtDir = "asc"
                      THEN CellOf(srtOut[i]).n <= CellOf(srtOut[j]).n
                      ELSE CellOf(srtOut[i]).n >= CellOf(srtOut[j]).n
        /\ (CellsOf(srtIn) = ExampleCells /\ srtDir = "asc")
               => CellsOf(srtOut) = <<JNum(1), JNum(2), JNum(3), JNull, JNull>>
        /\ (CellsOf(srtIn) = ExampleCells /\ srtDir = "desc")
               => CellsOf(srtOut) = <<JNum(3), JNum(2), JNum(1), JNull, JNull>>

C7_Witness ==
    /\ srtDir = "desc"
    /\ CellsOf(srtIn) = ExampleCells
    /\ CellsOf(srtOut) = <<JNum(3), JNum(2), JNum(1), JNull, JNull>>

-----------------------------------------------------------------------------
(* Claims about the CSV exports (specification SpecCsv).                   *)

\* a field as standard CSV quoting writes it
QuotedField(s) ==
    IF (\E i \in 1..Len(s) : s[i] \in {Comma, Quote})
    THEN <<Quote>> \o replaceQuotes(s) \o <<Quote>>
    ELSE s

\* the text of a cell: empty for null and undefined, String(value) otherwise
CellText(v) == IF v.k \in {"null", "undef"} THEN <<>> ELSE StringOf(v)

csvHeaders == csvRows.items[1].keys

\* the grid of strings a table stands for: its header names, then its rows
ExpectedGrid ==
    <<csvHeaders>>
    \o [i \in 1..Len(csvRows.items) |->
           [j \in 1..Len(csvHeaders) |-> CellText(csvRows.items[i].vals[j])]]

RECURSIVE QuotedLine(_)
QuotedLine(fields) ==
    IF fields = <<>> THEN <<>>
    ELSE QuotedField(Head(fields))
         \o (IF Len(fields) > 1 THEN <<Comma>> ELSE <<>>)
         \o QuotedLine(Tail(fields))

RECURSIVE QuotedLines(_)
QuotedLines(grid) ==
    IF grid = <<>> THEN <<>>
    ELSE QuotedLine(Head(grid))
         \o (IF Len(grid) > 1 THEN <<Newline>> ELSE <<>>)
         \o QuotedLines(Tail(grid))

\* C11: the CSV file StructuredTableView exports for a table with rows is the
\* header row and one row per record, each field quoted exactly when it has a
\* comma or a double quote (header names too), null and undefined cells, and
\* only they, written as the empty string.
C11_CsvEncoding ==
    (csvBy = "StructuredTableView" /\ Len(csvRows.items) > 0)
        => csvText = QuotedLines(ExpectedGrid)

\* reading a CSV text back: commas and newlines split outside quoted fields,
\* a doubled quote inside a quoted field is one quote
RECURSIVE ParseCsvFrom(_, _, _, _, _, _)
ParseCsvFrom(t, i, quoted, field, row, grid) ==
    IF i > Len(t) THEN grid \o <<row \o <<field>>>>
    ELSE IF quoted THEN
        IF t[i] = Quote
        THEN IF i < Len(t) /\ t[i + 1] = Quote
             THEN ParseCsvFrom(t, i + 2, TRUE, field \o <<Quote>>, row, grid)
             ELSE ParseCsvFrom(t, i + 1, FALSE, field, row, grid)
        ELSE ParseCsvFrom(t, i + 1, TRUE, field \o <<t[i]>>, row, grid)
    ELSE IF t[i] = Quote THEN ParseCsvFrom(t, i + 1, TRUE, field, row, grid)
    ELSE IF t[i] = Comma THEN ParseCsvFrom(t, i + 1, FALSE, <<>>, row \o <<field>>, grid)
    ELSE IF t[i] = Newline
    THEN ParseCsvFrom(t, i + 1, FALSE, <<>>, <<>>, grid \o <<row \o <<field>>>>)
    ELSE ParseCsvFrom(t, i + 1, FALSE, field \o <<t[i]>>, row, grid)

ParseCsv(t) == ParseCsvFrom(t, 1, FALSE, <<>>, <<>>, <<>>)

\* C12: parsing the exported CSV back gives the (N+1) x M grid of the header
\* names and the string forms of the cells (null as empty), for tables whose
\* cells and header names may hold commas and double quotes.
C12_CsvRoundTrip ==
    (csvBy # "none" /\ Len(csvRows.items) > 0)
        => ParseCsv(csvText) = ExpectedGrid

-----------------------------------------------------------------------------
(* Claims about InvoiceTable (specification SpecInvoice).                  *)

firstRowKeys == currentTable.rows[1].keys

\* hs lists the members of keys that are in wanted, in the order of keys
KeysInOrder(hs, keys, wanted) ==
    /\ {hs[i] : i \in 1..Len(hs)} = wanted
    /\ Len(hs) = Cardinality(wanted)
    /\ \A i, j \in 1..Len(hs) : i < j => indexOf(keys, hs[i]) < indexOf(keys, hs[j])

\* C18: for a table without a headers field, the headers shown and exported
\* are the keys of its first row other than 'rowNumber', in the row's key
\* order, and the first line of the export names them.
C18_HeadersFromFirstRow ==
    (invView = "Table" /\ ~currentTable.own) =>
        /\ KeysInOrder(invHeaders, firstRowKeys,
                       {firstRowKeys[i] : i \in 1..Len(firstRowKeys)} \ {RowNumberKey})
        /\ (csvBy = "InvoiceTable" /\ csvIndex = invSelected + 1)
               => ParseCsv(csvText)[1] = formatColumnHeaders(invHeaders)

C18_Witness ==
    /\ invView = "Table"
    /\ ~currentTable.own
    /\ invSelected = 1
    /\ csvBy = "InvoiceTable"
    /\ csvIndex = 2
    /\ firstRowKeys = <<BatchKey, RowNumberKey, QuantityKey>>
    /\ invHeaders = <<BatchKey, QuantityKey>>

\* C18 as stated: the headers are all the keys of the first row, none left out
C18_AllFirstRowKeys ==
    (invView = "Table" /\ ~currentTable.own) => invHeaders = firstRowKeys

-----------------------------------------------------------------------------
(* Claims about the sort of mixed columns (specification SpecSortMixed).   *)

\* C13: sorting ascending by a column and sorting the result ascending by
\* the same column again gives the row order of the first sort, also when
\* the column mixes nulls, numbers and strings.
C13_SortIdempotent == srtAgain.done => srtAgain.rows = srtOut

-----------------------------------------------------------------------------
(* Claims about the text functions.                                        *)

\* the text has no amount, date, identifier or account-number match
NoMatches(t) ==
    /\ MatchAll("amount", t, 1) = <<>>
    /\ MatchAll("date", t, 1) = <<>>
    /\ MatchAll("code", t, 1) = <<>>
    /\ MatchAll("account", t, 1) = <<>>

Extracted == extOut.fn \in {"parseToStructuredJson", "parseToSimpleFormat"}

TotalPaidText == <<"T", "o", "t", "a", "l", " ", "1", ",", "2", "3", "4", ".", "5", "6", " ", "p", "a", "i", "d", " ", "o", "n", " ", "0", "5", "/", "0", "6", "/", "2", "0", "2", "4">>

\* C15: from "Total 1,234.56 paid on 05/06/2024" the extraction yields exactly
\* one amount, of value 1234.56 (123456 hundredths), and exactly one date,
\* the string "05/06/2024".
C15_TotalPaidExample ==
    (extText = TotalPaidText /\ extOut.fn = "parseToStructuredJson") =>
        /\ ~extOut.null
        /\ extOut.amounts = <<123456>>
        /\ extOut.dates = <<<<"0", "5", "/", "0", "6", "/", "2", "0", "2", "4">>>>

C15_Witness ==
    /\ extText = TotalPaidText
    /\ extOut.fn = "parseToStructuredJson"
    /\ Len(extOut.amounts) = 1
    /\ Len(extOut.dates) = 1

\* the lines of the text the key-value pattern matches
keyValueLines(t) == SelectSeq(nonBlankLines(t), LAMBDA line : keyEnd(line) > 0)

\* C16: the result has as many fields of each kind as the text has matches of
\* the kind's pattern: every key-value line, amount, date, identifier and
\* account number appears, none replaces another.
C16_ExtractionAdditive ==
    (extOut.fn = "parseToStructuredJson" /\ ~extOut.null) =>
        /\ Len(extOut.keyValuePairs) = Len(keyValueLines(extText))
        /\ Len(extOut.amounts) = Len(MatchAll("amount", extText, 1))
        /\ Len(extOut.dates) = Len(MatchAll("date", extText, 1))
        /\ Len(extOut.codes) = Len(MatchAll("code", extText, 1))
        /\ Len(extOut.accounts) = Len(MatchAll("account", extText, 1))

\* C17: each pass of formatExtractedText finds the matches it would find in
\* the text the passes started from: the date pass and the number pass see
\* nothing an earlier pass put in.
C17_PassesSeeOriginal ==
    (extOut.fn = "formatExtractedText" /\ extText # <<>>) =>
        /\ MatchAll("slashdate", extOut.stages[2], 1) = MatchAll("slashdate", extOut.stages[1], 1)
        /\ MatchAll("number", extOut.stages[3], 1) = MatchAll("number", extOut.stages[1], 1)

-----------------------------------------------------------------------------
(* Claims about the tables of an object payload.                           *)

\* the top-level keys of an object whose value is an array
arrayKeys(pd) == SelectSeq(pd.keys, LAMBDA key : Get(pd, key).k = "arr")

\* the render throws on the selected key, whose value is not an array
ThrowsOnNonArrayKey ==
    /\ stvView = "Throw"
    /\ selectedTable # <<>>
    /\ Get(stvParsed, selectedTable).k # "arr"

\* C19: for an object payload the tables offered are exactly the top-level
\* keys whose value is an array, and no render throws because the selected
\* key holds a string, a number or another value that is not an array.
C19_OnlyArrayKeysAreTables ==
    stvParsed.k = "obj" =>
        /\ stvTables = arrayKeys(stvParsed)
        /\ ~ThrowsOnNonArrayKey

-----------------------------------------------------------------------------
(* Claims about the details of a file.                                     *)

FetchFailed == rdEvent \in {"rejected", "nonSuccess"}

\* C20: after a fetch of the details is rejected or resolves without success
\* the error state is shown: a message is set, no file is selected, loading
\* is off and no request is pending.  While the error state is shown no
\* request is sent, and it is left only by its 'Back to Results' button,
\* which shows the list with the error cleared.
C20_FetchFailureShowsError ==
    /\ [](FetchFailed =>
            /\ rdView = "Error"
            /\ ~detailsError.null
            /\ selectedFile.null
            /\ ~loadingFileDetails
            /\ pendingFetch = <<>>)
    /\ [][rdView = "Error" =>
            /\ requestCount' = requestCount
            /\ pendingFetch' = <<>>
            /\ \/ rdView' = "Error" /\ detailsError' = detailsError
               \/ /\ rdEvent' = "dismiss"
                  /\ rdView' = "List"
                  /\ detailsError'.null]_vars

C20_Witness ==
    /\ rdEvent = "dismiss"
    /\ rdView = "List"
    /\ requestCount >= 1

FlagsOn(file) ==
    {flag \in {"showFormattedJson", "showStructuredData", "showSimpleFormat",
               "showEnhancedText"} : file[flag]}

\* C23: whatever file is open and whatever tabs were clicked, at most one of
\* the four flags is true, exactly one tab button is active, and the raw JSON
\* is the content exactly when the four flags are false.
C23_JsonModesExclusive ==
    ~selectedFile.null =>
        /\ Cardinality(FlagsOn(selectedFile)) <= 1
        /\ Cardinality(activeTabs(selectedFile)) = 1
        /\ FlagsOn(selectedFile) = {} <=> jsonContent(selectedFile) = "RawJson"

C23_Witness ==
    /\ rdEvent = "tab"
    /\ selectedFile.showSimpleFormat
    /\ requestCount >= 1

\* C26: the files supplied to the view stay as they were supplied, whatever
\* file is opened, whatever tab is clicked, and after going back.
C26_FilesNeverMutated == files = rdSupplied

C26_Witness ==
    /\ rdEvent = "tab"
    /\ selectedFile.showFormattedJson
    /\ \E i \in 1..Len(files) : files[i].id = selectedFile.id /\ files[i].parsedContent

-----------------------------------------------------------------------------
(* Claims about the list of files and the status messages of App.          *)

\* C22: the list changes in two ways only: a successful upload puts the file
\* returned at the head and keeps the entries it had in their order, a
\* successful refresh replaces the list by the server's; every other step,
\* failed uploads and failed or non-success refreshes included, leaves it.
C22_ListChangesByUploadOrRefresh ==
    [][/\ appEvent'.type = "uploadResolves" =>
              processedFiles' = <<appEvent'.file>> \o processedFiles
       /\ appEvent'.type = "refreshResolves" => processedFiles' = appEvent'.list
       /\ appEvent'.type \notin {"uploadResolves", "refreshResolves"} =>
              processedFiles' = processedFiles]_vars

C22_Witness ==
    /\ appEvent.type = "uploadResolves"
    /\ Len(processedFiles) >= 2
    /\ processedFiles[1] = appEvent.file

\* C28: a file a successful upload put in the list leaves the list only when
\* a refresh requested after that upload completed replaces the list.
C28_UploadSurvivesEarlierRefresh ==
    [][\A k \in appAdded :
           (InList(k, processedFiles) /\ ~InList(k, processedFiles')) =>
               (appEvent'.type = "refreshResolves" /\ k \in appEvent'.saw)]_vars

\* the message of a kind that is displayed (0: none)
Displayed(kind) == IF kind = "error" THEN error ELSE success

\* C29: a pending timer clears only the message it was started for, and a
\* message that is displayed has a pending timer that will hide it.
C29_TimersPaired ==
    /\ \A t \in timers : Displayed(t.kind) # 0 => Displayed(t.kind) = t.for
    /\ \A kind \in {"error", "success"} :
           Displayed(kind) # 0 =>
               \E t \in timers : t.kind = kind /\ t.for = Displayed(kind)

C29_Witness ==
    /\ success = 2
    /\ appAdded = {1, 2}
    /\ Cardinality(timers) = 1


-----------------------------------------------------------------------------
(* Claims about the exports.                                               *)

\* C24: every export action catches a failure thrown during generation at its
\* call site and reports it with an alert, and leaves the in-memory tables and
\* the view state (selected table, sort, active tab) unchanged.
C24_ExportFailureAlerted ==
    [][(exEvent' # exEvent /\ exEvent'.thrown)
          => /\ exEvent'.outcome = alerted
             /\ <<exSheets, exInvoice, exCsvRows, exView>>'
                    = <<exSheets, exInvoice, exCsvRows, exView>>]_vars

\* the headers handed to the layout that drew entry e of the document
headersOf(e) ==
    IF e.by = "createTableInPDF"
    THEN iota(exSheets[e.sheet].cols)
    ELSE iota(exInvoice.cols)

Elements(s) == {s[i] : i \in 1..Len(s)}

RECURSIVE rowsDrawn(_, _)
rowsDrawn(doc, k) ==
    IF k > Len(doc) THEN <<>> ELSE doc[k].table.rows \o rowsDrawn(doc, k + 1)

\* C27: the complete-sheet export ends for every sheet and has then drawn
\* every data row exactly once: rows 1..R of a sheet of R rows, none skipped
\* and none repeated.
C27_EveryRowDrawnOnce ==
    (exEvent.action = "exportSheetData" /\ exEvent.outcome = "saved")
        => \/ exSheets[exEvent.sheet].cols = 0
           \/ rowsDrawn(exDoc, 1) = iota(exSheets[exEvent.sheet].rows)

=============================================================================
